---- MODULE Spec2Model ----
(***************************************************************************)
(* IPC port manager and helper loop of the library OS                      *)
(* (shim_ipc_helper.c, src/unnamed/part_002).                              *)
(*                                                                         *)
(* The registry (pobj_list, ipc_port_pool), the reference-counted ports,   *)
(* the helper thread's loop and its life cycle, the pending duplex         *)
(* requests, the framed receive loop and the broadcast router are modelled *)
(* as one state machine.  Sections that the code runs under                *)
(* ipc_helper_lock are single steps; what the code does after unlocking    *)
(* (restart_ipc_helper, create_ipc_helper, the second half of              *)
(* del_ipc_port_fini) are steps of their own, so that other threads        *)
(* interleave exactly where the code lets them.                            *)
(***************************************************************************)
EXTENDS Integers, Sequences, FiniteSets, TLC

VARIABLES
    ipc_helper_state,   \* HELPER_UNINITIALIZED .. HELPER_HANDEDOVER
    ipc_helper_thread,  \* the registered helper thread, 0 = NULL
    ipc_helper_update,  \* the helper's own "dirty" flag
    ipc_helper_event,   \* the wakeup event is set
    port,               \* the port objects of port_mgr, by slot
    pobj_list,          \* insertion-order list of ports
    ipc_port_pool,      \* hash buckets: PID_HASH -> list of ports
    broadcast_port,     \* the dedicated broadcast port, 0 = NULL
    closed,             \* per stream handle: number of DkObjectClose calls
    fini_log,           \* per port slot: the fini callbacks stored (set)
                        \* and invoked (called) since it was allocated
    held,               \* per port: references held by callers
    helper,             \* per helper thread: position and local arrays
    sub,                \* per thread: the call it is in the middle of
    cleaned,            \* number of shim_clean() calls
    sent,               \* log of the send_ipc_message calls
    rx,                 \* the frames read: their number, and the last one
    req,                \* the duplex requests, by sequence number
    recv,               \* per thread: the receive_ipc_message call it is in
    bcast,              \* log of the broadcast_ipc calls
    exit_ret,           \* per thread: <<r>>, what its last call of
                        \* exit_with_ipc_helper returned
    ops,                \* number of operations the application has started
    pal,                \* the platform's handles and the last multi-wait on
                        \* them: its arguments, its poll set and its result
    efd,                \* the platform's eventfd handle and the host calls
                        \* made for it
    ipc_helper_lock     \* the thread that holds ipc_helper_lock, 0 = nobody

vars == <<ipc_helper_state, ipc_helper_thread, ipc_helper_update,
          ipc_helper_event, port, pobj_list, ipc_port_pool, broadcast_port,
          closed, fini_log, held, helper, sub, cleaned, sent, rx, req, recv,
          bcast, exit_ret, ops, pal, efd, ipc_helper_lock>>

ioVars == <<sent, rx, req, recv, bcast, exit_ret>>

-----------------------------------------------------------------------------
(* Bounds of the model *)

MaxHelpers == 2     \* helper thread objects that can be created
MaxUsers   == 1     \* application threads calling into the registry
MaxPorts   == 2     \* slots of the port memory manager
MaxHandles == 2     \* stream handles the platform hands out
MaxHeld    == 1     \* references a caller keeps on one port
MaxOps     == 3     \* operations the application threads start
MaxLifeOps == 4     \* the same, in the life cycle of the helper
MaxMsgOps  == 2     \* the same, in the message traffic
MaxReqs    == 1     \* duplex requests sent
MaxFrames  == 2     \* frames read from the streams
MaxBcastOps == 3    \* operations before and after a broadcast
MaxFiniOps == 4     \* operations on ports that have fini callbacks
MaxByIdOps == 3     \* operations on ports admitted by handle
MaxBcasts  == 2     \* calls of broadcast_ipc
MaxClients == 2     \* clients a server port accepts
MaxPalHandles == 2  \* handles given to the platform's multi-wait
MaxWaits   == 1     \* calls of the multi-wait
MaxAcceptOps == 1   \* calls of the application while clients are accepted
MaxEfdOps  == 4     \* operations on the eventfd handle
MaxAllocOps == 3    \* calls of the application when memory is short
MaxAllocPorts == 1  \* ports the memory manager can give when it is short

Helpers == 1 .. MaxHelpers
Users   == (MaxHelpers + 1) .. (MaxHelpers + MaxUsers)
Threads == Helpers \cup Users

\* the port structures the memory manager has room for and the stream
\* handles the platform hands out: as many as the initial state provides
Ports   == DOMAIN port
Handles == DOMAIN closed

(* Program constants *)

PID_HASH_LEN  == 6
PID_HASH_NUM  == 2 ^ PID_HASH_LEN
PID_HASH_MASK == PID_HASH_NUM - 1
PID_HASH(pid) == pid % PID_HASH_NUM

MAX_IPC_PORT_FINI_CB == 3

IPC_PORT_SERVER    == {"SERVER"}
IPC_PORT_KEEPALIVE == {"KEEPALIVE"}
IPC_PORT_LISTEN    == {"LISTEN"}
IPC_PORT_DIRPRT    == {"DIRPRT"}
IPC_PORT_IFPOLL    == {"IFPOLL"}

cur_process_vmid == 9

ECONNRESET        == 104
EAGAIN            == 11
ECHILD            == 10
RESPONSE_CALLBACK == 1

MAX_FDS        == 2
PAL_IDX_POISON == -1

(* Peer ids callers pass (never the process's own id: the assert of        *)
(* __add_ipc_port), and the role masks they pass.                          *)
Vmids == {0, 1}

AddTypes == { IPC_PORT_LISTEN \cup IPC_PORT_IFPOLL,
              IPC_PORT_DIRPRT,
              IPC_PORT_SERVER \cup IPC_PORT_IFPOLL,
              IPC_PORT_IFPOLL \cup IPC_PORT_KEEPALIVE }

\* the buckets of ipc_port_pool that these peer ids select; the other
\* buckets stay empty for ever and are left out of the state
Buckets == { PID_HASH(v) : v \in Vmids }

DelTypes == { {}, IPC_PORT_IFPOLL, IPC_PORT_KEEPALIVE }

-----------------------------------------------------------------------------
(* Sequences *)

Range(s) == { s[i] : i \in 1 .. Len(s) }

Remove(s, x) == SelectSeq(s, LAMBDA y : y # x)

RECURSIVE Count(_, _)
Count(s, x) ==
    IF s = <<>> THEN 0
    ELSE (IF Head(s) = x THEN 1 ELSE 0) + Count(Tail(s), x)

-----------------------------------------------------------------------------
(* The port object and the registry.  A registry value R is the record     *)
(* [port, pobj_list, pool, closed]; the operators below are the            *)
(* functions of the code that run under ipc_helper_lock.                   *)

NullFini == [i \in 1 .. MAX_IPC_PORT_FINI_CB |-> "NULL"]

NoLog == [set |-> 0, called |-> 0, stale |-> 0]

FreePort == [alloc |-> FALSE, pal_handle |-> 0, vmid |-> 0, type |-> {},
             pvmid |-> 0, ptype |-> {}, update |-> FALSE, recent |-> FALSE,
             ref_count |-> 0, fini |-> NullFini, msgs |-> <<>>]

Reg == [port |-> port, pobj_list |-> pobj_list, pool |-> ipc_port_pool,
        closed |-> closed, log |-> fini_log]

SetReg(R) ==
    /\ port' = R.port
    /\ pobj_list' = R.pobj_list
    /\ ipc_port_pool' = R.pool
    /\ closed' = R.closed
    /\ fini_log' = R.log

\* list_empty(&port->list) and hlist_unhashed(&port->hlist)
list_empty(R, p) == p \notin Range(R.pobj_list)

hlist_unhashed(R, p) == \A b \in DOMAIN R.pool : p \notin Range(R.pool[b])

\* __get_ipc_port without its REF_INC: the reference is not counted
get_ipc_port_lost(R, p) == R

\* __get_ipc_port
get_ipc_port_(R, p) == [R EXCEPT !.port[p].ref_count = @ + 1]

\* __put_ipc_port: on the last reference the handle is closed and the
\* object goes back to the memory manager.
put_ipc_port_(R, p) ==
    LET rc == R.port[p].ref_count - 1
        hd == R.port[p].pal_handle
    IN  IF rc # 0
        THEN [R EXCEPT !.port[p].ref_count = rc]
        ELSE [R EXCEPT !.port[p] = FreePort,
                       !.closed = IF hd # 0
                                  THEN [@ EXCEPT ![hd] = @ + 1]
                                  ELSE @]

\* the fini slots of __add_ipc_port: the first slot that is free or
\* already holds the callback (0 when the array is full)
FiniSlot(f, fini) ==
    LET ok == { i \in 1 .. MAX_IPC_PORT_FINI_CB :
                   f[i] = "NULL" \/ f[i] = fini }
    IN  IF ok = {} THEN 0 ELSE CHOOSE i \in ok : \A j \in ok : i <= j

\* __add_ipc_port
add_ipc_port_(R, p, vmid, type, fini) ==
    LET R1 == IF vmid # 0 /\ R.port[p].vmid = 0
              THEN [R EXCEPT !.port[p].vmid = vmid, !.port[p].update = TRUE]
              ELSE R
        R2 == IF R1.port[p].vmid # 0 /\ hlist_unhashed(R1, p)
              THEN [get_ipc_port_(R1, p)
                      EXCEPT !.pool[PID_HASH(vmid)] = <<p>> \o @]
              ELSE R1
        need_restart == /\ R2.port[p].type \cap IPC_PORT_IFPOLL = {}
                        /\ type \cap IPC_PORT_IFPOLL # {}
        R3 == IF ~(type \subseteq R2.port[p].type)
              THEN [R2 EXCEPT !.port[p].type = @ \cup type,
                              !.port[p].update = TRUE]
              ELSE R2
        slot == FiniSlot(R3.port[p].fini, fini)
        R4 == IF fini # "NULL" /\ (type \ IPC_PORT_IFPOLL) # {} /\ slot # 0
              THEN [R3 EXCEPT !.port[p].fini[slot] = fini,
                              !.log[p].set =
                                 IF R3.port[p].fini[slot] = fini
                                 THEN @ ELSE @ + 1]
              ELSE R3
        R5 == IF need_restart
              THEN IF list_empty(R4, p)
                   THEN [get_ipc_port_(R4, p)
                           EXCEPT !.pobj_list = <<p>> \o @,
                                  !.port[p].recent = TRUE]
                   ELSE IF ~R4.port[p].recent
                        THEN [R4 EXCEPT
                                !.pobj_list = <<p>> \o Remove(@, p),
                                !.port[p].recent = TRUE]
                        ELSE R4
              ELSE IF list_empty(R4, p)
                   THEN [get_ipc_port_(R4, p)
                           EXCEPT !.pobj_list = Append(@, p)]
                   ELSE R4
    IN  [R |-> R5, need_restart |-> need_restart]

\* an evict that takes the port out of both collections whatever roles
\* it keeps
del_ipc_port_always(R, p, type0) ==
    LET R1 == IF ~list_empty(R, p)
              THEN put_ipc_port_([R EXCEPT !.pobj_list = Remove(@, p)], p)
              ELSE R
        R2 == IF ~hlist_unhashed(R1, p)
              THEN put_ipc_port_(
                     [R1 EXCEPT !.pool =
                         [b \in DOMAIN @ |-> Remove(@[b], p)]], p)
              ELSE R1
    IN  [R |-> IF R2.port[p].alloc
               THEN [R2 EXCEPT !.port[p].update = TRUE] ELSE R2,
         need_restart |-> TRUE]

\* __del_ipc_port
del_ipc_port_(R, p, type0) ==
    LET cur  == R.port[p].type
        type == IF type0 # {} THEN type0 \cap cur ELSE cur
        flip == (type \cap IPC_PORT_KEEPALIVE) # (cur \cap IPC_PORT_KEEPALIVE)
        others == cur \ (type \cup IPC_PORT_IFPOLL \cup IPC_PORT_KEEPALIVE)
        R1 == IF ~list_empty(R, p)
              THEN put_ipc_port_(
                     [R EXCEPT !.pobj_list = Remove(@, p),
                               !.port[p].type = @ \cap IPC_PORT_IFPOLL], p)
              ELSE R
        R2 == IF ~hlist_unhashed(R1, p)
              THEN put_ipc_port_(
                     [R1 EXCEPT !.pool =
                         [b \in DOMAIN @ |-> Remove(@[b], p)]], p)
              ELSE R1
        \* port->update = true, at the label out; on a port that was
        \* freed just above the store goes to released memory
        Out(X) == IF X.port[p].alloc
                  THEN [X EXCEPT !.port[p].update = TRUE]
                  ELSE [X EXCEPT !.log[p].stale = @ + 1]
    IN  IF others # {}
        THEN [R |-> Out([R EXCEPT !.port[p].type = @ \ type]),
              need_restart |-> flip]
        ELSE [R |-> Out(R2),
              need_restart |-> flip \/ (cur \cap IPC_PORT_IFPOLL # {})]

\* __get_new_ipc_port: a slot of the memory manager (0 when it has none)
FreeSlot(R) ==
    LET free == { p \in Ports : ~R.port[p].alloc }
    IN  IF free = {} THEN 0 ELSE CHOOSE p \in free : \A q \in free : p <= q

get_new_ipc_port_(R, p, hdl) ==
    [R EXCEPT !.port[p] = [FreePort EXCEPT !.alloc = TRUE,
                                           !.pal_handle = hdl,
                                           !.update = TRUE,
                                           !.ref_count = 1],
              !.log[p] = [NoLog EXCEPT !.stale = R.log[p].stale]]

\* the search of add_ipc_port_by_id: the peer bucket first, then the list
FirstIn(s, Ok(_)) ==
    LET idx == { i \in 1 .. Len(s) : Ok(s[i]) }
    IN  IF idx = {} THEN 0 ELSE s[CHOOSE i \in idx : \A j \in idx : i <= j]

\* a search that looks in the peer bucket only
FindPortInBucket(R, vmid, hdl) ==
    IF vmid # 0
    THEN FirstIn(R.pool[PID_HASH(vmid)],
                 LAMBDA q : /\ R.port[q].vmid = vmid
                            /\ R.port[q].pal_handle = hdl)
    ELSE 0

FindPort(R, vmid, hdl) ==
    LET inHash == IF vmid # 0
                  THEN FirstIn(R.pool[PID_HASH(vmid)],
                               LAMBDA q : /\ R.port[q].vmid = vmid
                                          /\ R.port[q].pal_handle = hdl)
                  ELSE 0
    IN  IF inHash # 0 THEN inHash
        ELSE FirstIn(R.pobj_list, LAMBDA q : R.port[q].pal_handle = hdl)

\* __lookup_ipc_port
lookup_ipc_port_(R, vmid, type) ==
    FirstIn(R.pool[PID_HASH(vmid)],
            LAMBDA q : /\ R.port[q].vmid = vmid
                       /\ (type = {} \/ R.port[q].type \cap type # {}))

-----------------------------------------------------------------------------
(* The helper's reconfiguration (label update_list of shim_ipc_helper),    *)
(* on the helper's local array lp and its keepalive count nalive.          *)

\* an entry that moves down takes its handle along, line 923; stale is
\* what the slot held before
MovedHandleStale(P, stale) == stale

MovedHandle(P, stale) == P.pal_handle

\* first walk: drop the ports that left the list, refresh the others.
\* lports is local_ports + 1, the handles given to the wait beside the
\* event; w is what the walk has made so far: the entries kept, their
\* handles, the keepalive count and the number of entries dropped
RECURSIVE WalkWatched(_, _, _, _)
WalkWatched(R, lp, lports, w) ==
    IF lp = <<>>
    THEN [R |-> R, lp |-> w.lp, lports |-> w.lports, nalive |-> w.nalive,
          compact |-> w.compact]
    ELSE LET pobj == Head(lp)
             P    == R.port[pobj]
             keep(nalive) ==
                [w EXCEPT !.lp = Append(@, pobj),
                          !.lports =
                             Append(@, IF w.compact # 0
                                       THEN MovedHandle(P,
                   w.old[Len(w.lp) + 1])
                                       ELSE w.old[Len(w.lp) + 1]),
                          !.nalive = nalive]
         IN  IF list_empty(R, pobj)
             THEN WalkWatched(put_ipc_port_(R, pobj), Tail(lp), Tail(lports),
                              [w EXCEPT
                                 !.compact = @ + 1,
                                 !.nalive =
                                    IF P.ptype \cap IPC_PORT_KEEPALIVE # {}
                                    THEN @ - 1 ELSE @])
             ELSE IF P.update
             THEN WalkWatched(
                    [R EXCEPT !.port[pobj].ptype = P.type,
                              !.port[pobj].pvmid = P.vmid,
                              !.port[pobj].update = FALSE],
                    Tail(lp), Tail(lports),
                    keep(IF P.type \cap IPC_PORT_KEEPALIVE # {}
                         THEN (IF P.ptype \cap IPC_PORT_KEEPALIVE = {}
                               THEN w.nalive - 1 ELSE w.nalive)
                         ELSE (IF P.ptype \cap IPC_PORT_KEEPALIVE # {}
                               THEN w.nalive + 1 ELSE w.nalive)))
             ELSE WalkWatched(R, Tail(lp), Tail(lports), keep(w.nalive))

\* second walk: the recent ports at the head of the list are appended
RECURSIVE WalkRecent(_, _, _)
WalkRecent(R, rest, w) ==
    IF rest = <<>> \/ ~R.port[Head(rest)].recent
    THEN [R |-> R, lp |-> w.lp, lports |-> w.lports, nalive |-> w.nalive,
          compact |-> w.compact]
    ELSE LET pobj == Head(rest)
             P    == R.port[pobj]
             ptype == IF P.update THEN P.type ELSE P.ptype
             pvmid == IF P.update THEN P.vmid ELSE P.pvmid
             R1 == get_ipc_port_(
                     [R EXCEPT !.port[pobj].ptype = ptype,
                               !.port[pobj].pvmid = pvmid,
                               !.port[pobj].update = FALSE,
                               !.port[pobj].recent = FALSE], pobj)
         IN  WalkRecent(R1, Tail(rest),
                        [lp |-> Append(w.lp, pobj),
                         lports |-> Append(w.lports, P.pal_handle),
                         nalive |-> IF ptype \cap IPC_PORT_KEEPALIVE # {}
                                    THEN w.nalive + 1 ELSE w.nalive,
                         compact |-> w.compact])

update_list(R, lp, lports, nalive) ==
    LET w == WalkWatched(R, lp, lports,
                         [lp |-> <<>>, lports |-> <<>>, nalive |-> nalive,
                          compact |-> 0, old |-> lports])
    IN  WalkRecent(w.R, w.R.pobj_list, w)

-----------------------------------------------------------------------------
(* The platform's multi-wait (db_object.c, src/unnamed/part_000).  A       *)
(* handle is the record of its header: has_fds (HAS_FDS), the slots with   *)
(* RFD, WFD, WRITEABLE and ERROR set, the descriptor of each slot, and     *)
(* wait: its handle_ops have a wait function.  ppoll is given the poll     *)
(* set and answers from ready, the condition of each descriptor.           *)

Slots == 0 .. (MAX_FDS - 1)

PalHandles == 1 .. MaxPalHandles

Fds == {5, 6, 7}

NoHandle == [has_fds |-> FALSE, wait |-> FALSE, rfd |-> {}, wfd |-> {},
             writeable |-> {}, error |-> {},
             fds |-> [j \in Slots |-> PAL_IDX_POISON]]

NoPal == [hdl |-> [h \in PalHandles |-> NoHandle], arr |-> <<>>,
          set |-> <<>>, rev |-> <<>>, err |-> "none", ret |-> "none",
          polled |-> 0, calls |-> 0]

\* the events asked for on slot j, lines 63-71 and 175-183
PollEvents(hd, j) ==
    (IF j \in hd.rfd /\ j \notin hd.error THEN {"POLLIN"} ELSE {})
    \cup (IF j \in hd.wfd /\ j \notin hd.writeable /\ j \notin hd.error
          THEN {"POLLOUT"} ELSE {})

\* the entries of the poll set for the slots j.. of handle h (lines 61-80,
\* 172-192); poison: the test for PAL_IDX_POISON of line 185 is made.
\* off is the array off[] of _DkObjectWaitOne, hdl the array hdls[] of
\* _DkObjectsWaitAny.
RECURSIVE SlotEntries(_, _, _, _)
SlotEntries(hd, h, j, poison) ==
    IF j >= MAX_FDS THEN <<>>
    ELSE (IF /\ PollEvents(hd, j) # {}
             /\ (poison => hd.fds[j] # PAL_IDX_POISON)
          THEN <<[fd |-> hd.fds[j],
                  events |-> PollEvents(hd, j) \cup {"POLLHUP", "POLLERR"},
                  hdl |-> h, off |-> j]>>
          ELSE <<>>)
         \o SlotEntries(hd, h, j + 1, poison)

\* the second loop over handleArray, lines 162-193: NULL entries and
\* repeated entries are passed over
RECURSIVE PollSet(_, _, _)
PollSet(H, arr, i) ==
    IF i > Len(arr) THEN <<>>
    ELSE (IF arr[i] = 0 \/ \E k \in 1 .. (i - 1) : arr[k] = arr[i]
          THEN <<>>
          ELSE SlotEntries(H[arr[i]], arr[i], 0, TRUE))
         \o PollSet(H, arr, i + 1)

\* ppoll: the revents of each entry; a negative descriptor is ignored
Revents(set, ready) ==
    [i \in DOMAIN set |->
        IF set[i].fd = PAL_IDX_POISON THEN {}
        ELSE ready[set[i].fd] \cap set[i].events]

\* the return value for an errno of ppoll, lines 85-92 and 212-219
PollError(errno) ==
    IF errno \in {"EINTR", "ERESTART"}
    THEN "PAL_ERROR_INTERRUPTED"
    ELSE "unix_to_pal_error"

\* lines 98-101 and 246-249
MarkSlot(hd, j, revents) ==
    [hd EXCEPT
       !.writeable = IF "POLLOUT" \in revents THEN @ \cup {j} ELSE @,
       !.error = IF revents \cap {"POLLHUP", "POLLERR"} # {}
                 THEN @ \cup {j} ELSE @]

\* the loop of lines 95-102
RECURSIVE MarkOne(_, _, _, _)
MarkOne(hd, set, rev, i) ==
    IF i > Len(set) THEN hd
    ELSE MarkOne(IF rev[i] = {} THEN hd
                 ELSE MarkSlot(hd, set[i].off, rev[i]),
                 set, rev, i + 1)

\* _DkObjectWaitOne; out is what ppoll, or the wait function of the
\* handle's ops, answers
DkObjectWaitOne_(H, h, out) ==
    LET set == SlotEntries(H[h], h, 0, FALSE)
        rev == Revents(set, out.ready)
        no  == [H |-> H, set |-> <<>>, rev |-> <<>>, err |-> "none"]
    IN  IF H[h].has_fds
        THEN IF set = <<>>
             THEN no @@ [ret |-> "PAL_ERROR_TRYAGAIN"]
             ELSE IF out.err # "none"
             THEN [H |-> H, set |-> set, rev |-> <<>>, err |-> out.err,
                   ret |-> PollError(out.err)]
             ELSE IF \A i \in DOMAIN set : rev[i] = {}
             THEN [H |-> H, set |-> set, rev |-> rev, err |-> "none",
                   ret |-> "PAL_ERROR_TRYAGAIN"]
             ELSE [H |-> [H EXCEPT ![h] = MarkOne(@, set, rev, 1)],
                   set |-> set, rev |-> rev, err |-> "none", ret |-> "0"]
        ELSE IF ~H[h].wait
             THEN no @@ [ret |-> "PAL_ERROR_NOTSUPPORT"]
             ELSE no @@ [ret |-> out.wait]

\* a scan that takes the events of every handle
OfAnyHandle(hdl, polled_hdl) == TRUE

\* the test of lines 231-233: the entry belongs to the handle that is
\* returned
OfPolledHandle(hdl, polled_hdl) == hdl = polled_hdl

\* the slot of the handle with this descriptor, lines 238-244 (MAX_FDS
\* when there is none)
FindSlot(hd, fd) ==
    LET found == { j \in Slots : /\ j \in hd.rfd \cup hd.wfd
                                 /\ hd.fds[j] = fd }
    IN  IF found = {} THEN MAX_FDS
        ELSE CHOOSE j \in found : \A k \in found : j <= k

\* the loop of lines 224-250
RECURSIVE ScanAny(_, _, _, _, _)
ScanAny(H, set, rev, i, polled_hdl) ==
    IF i > Len(set) THEN [H |-> H, polled |-> polled_hdl]
    ELSE IF rev[i] = {}
    THEN ScanAny(H, set, rev, i + 1, polled_hdl)
    ELSE IF polled_hdl # 0 /\ ~OfPolledHandle(set[i].hdl, polled_hdl)
    THEN ScanAny(H, set, rev, i + 1, polled_hdl)
    ELSE LET hdl == set[i].hdl
             j   == FindSlot(H[hdl], set[i].fd)
         IN  ScanAny(IF j = MAX_FDS THEN H
                     ELSE [H EXCEPT ![hdl] = MarkSlot(@, j, rev[i])],
                     set, rev, i + 1,
                     IF polled_hdl # 0 THEN polled_hdl ELSE hdl)

\* _DkObjectsWaitAny(count, handleArray, timeout, polled) with count the
\* length of arr; polled0 is what *polled holds before the call
DkObjectsWaitAny_(H, arr, polled0, out) ==
    LET set == PollSet(H, arr, 1)
        rev == Revents(set, out.ready)
        no  == [H |-> H, set |-> <<>>, rev |-> <<>>, err |-> "none",
                polled |-> polled0]
    IN  IF Len(arr) <= 0
        THEN no @@ [ret |-> "0"]
        ELSE IF Len(arr) = 1
        THEN DkObjectWaitOne_(H, arr[1], out) @@ [polled |-> arr[1]]
        ELSE IF \E i \in DOMAIN arr : arr[i] # 0 /\ ~H[arr[i]].has_fds
        THEN no @@ [ret |-> "PAL_ERROR_NOTSUPPORT"]
        ELSE IF set = <<>>
        THEN no @@ [ret |-> "PAL_ERROR_TRYAGAIN"]
        ELSE IF out.err # "none"
        THEN [H |-> H, set |-> set, rev |-> <<>>, err |-> out.err,
              polled |-> polled0, ret |-> PollError(out.err)]
        ELSE IF \A i \in DOMAIN set : rev[i] = {}
        THEN [H |-> H, set |-> set, rev |-> rev, err |-> "none",
              polled |-> polled0, ret |-> "PAL_ERROR_TRYAGAIN"]
        ELSE LET s == ScanAny(H, set, rev, 1, 0)
             IN  [H |-> s.H, set |-> set, rev |-> rev, err |-> "none",
                  polled |-> s.polled,
                  ret |-> IF s.polled # 0 THEN "0"
                          ELSE "PAL_ERROR_TRYAGAIN"]

\* a call of _DkObjectsWaitAny; a caller that passes one handle passes a
\* handle, not NULL
DkObjectsWaitAny(arr, out) ==
    /\ pal.calls < MaxWaits
    /\ Len(arr) = 1 => arr[1] # 0
    /\ LET r == DkObjectsWaitAny_(pal.hdl, arr, 0, out)
       IN  pal' = [hdl |-> r.H, arr |-> arr, set |-> r.set, rev |-> r.rev,
                   err |-> r.err, ret |-> r.ret, polled |-> r.polled,
                   calls |-> pal.calls + 1]
    /\ UNCHANGED <<ipc_helper_state, ipc_helper_thread, ipc_helper_update,
                   ipc_helper_event, port, pobj_list, ipc_port_pool,
                   fini_log, broadcast_port, closed, held, helper, sub,
                   cleaned, efd, ipc_helper_lock, ioVars, ops>>

-----------------------------------------------------------------------------
(* The eventfd handle of the platform layer (db_eventfd.c).  efd is the one *)
(* handle: its descriptor field, the descriptors open at the host, the      *)
(* number of ocall_close calls made for it, the number of host calls made   *)
(* and the last of them, the operation that ran last and what it returned.  *)

HostFds == {3, 4}

EfdOptions == SUBSET {"SEMAPHORE", "NONBLOCK"}

NoCall == [op |-> "none", fd |-> 0]

NoEfd == [open |-> FALSE, fd |-> PAL_IDX_POISON, nonblocking |-> FALSE,
          host |-> {}, closes |-> 0, calls |-> 0, call |-> NoCall,
          op |-> "none", ret |-> "none", n |-> 0]

PalErrors == {"-PAL_ERROR_INVAL", "-PAL_ERROR_BADHANDLE",
              "-PAL_ERROR_TRYAGAIN", "-PAL_ERROR_DENIED"}

\* what the host answers to a call on descriptor fd: out if it is open
\* there, EBADF otherwise
HostAnswer(e, fd, out) == IF fd \in e.host THEN out ELSE "-PAL_ERROR_BADHANDLE"

HostCall(e, name, fd) ==
    [e EXCEPT !.calls = @ + 1, !.call = [op |-> name, fd |-> fd]]

Returned(e, name, ret) == [e EXCEPT !.op = name, !.ret = ret, !.n = @ + 1]

eventfd_pal_open_(e, create, options, out) ==
    LET sem == "SEMAPHORE" \in options
        e1  == IF sem THEN e ELSE HostCall(e, "eventfd", 0)
        fd  == IF sem THEN create ELSE out
    IN  IF fd < 0
        THEN Returned(e1, "open", "-PAL_ERROR_DENIED")
        ELSE Returned([e1 EXCEPT !.open = TRUE, !.fd = fd,
                                 !.nonblocking = "NONBLOCK" \in options,
                                 !.host = @ \cup {fd}],
                      "open", "0")

eventfd_pal_read_(e, offset, len, out) ==
    IF offset # 0 THEN Returned(e, "read", "-PAL_ERROR_INVAL")
    ELSE IF len < 8 THEN Returned(e, "read", "-PAL_ERROR_INVAL")
    ELSE Returned(HostCall(e, "read", e.fd), "read", HostAnswer(e, e.fd, out))

eventfd_pal_write_(e, offset, len, out) ==
    IF offset # 0 THEN Returned(e, "write", "-PAL_ERROR_INVAL")
    ELSE IF len < 8 THEN Returned(e, "write", "-PAL_ERROR_INVAL")
    ELSE Returned(HostCall(e, "write", e.fd), "write",
                  HostAnswer(e, e.fd, out))

eventfd_pal_attrquerybyhdl_(e, out) ==
    IF e.fd = PAL_IDX_POISON
    THEN Returned(e, "attrquery", "-PAL_ERROR_BADHANDLE")
    ELSE LET e1 == HostCall(e, "fionread", e.fd)
             r1 == HostAnswer(e, e.fd, out)
         IN  IF r1 \in PalErrors THEN Returned(e1, "attrquery", r1)
             ELSE Returned(HostCall(e1, "poll", e.fd), "attrquery", "0")

eventfd_pal_close_(e) ==
    IF e.fd # PAL_IDX_POISON
    THEN Returned([HostCall(e, "close", e.fd) EXCEPT
                      !.closes = @ + 1, !.host = @ \ {e.fd},
                      !.fd = PAL_IDX_POISON],
                  "close", "0")
    ELSE Returned(e, "close", "0")

restOfEfd == <<ipc_helper_state, ipc_helper_thread, ipc_helper_update,
               ipc_helper_event, port, pobj_list, ipc_port_pool,
               fini_log, broadcast_port, closed, held, helper, sub,
               cleaned, pal, ipc_helper_lock, ioVars, ops>>

eventfd_pal_open(create, options, out) ==
    /\ ~efd.open
    /\ efd.n < MaxEfdOps
    /\ efd' = eventfd_pal_open_(efd, create, options, out)
    /\ UNCHANGED restOfEfd

eventfd_pal_read(offset, len, out) ==
    /\ efd.open
    /\ efd.n < MaxEfdOps
    /\ efd' = eventfd_pal_read_(efd, offset, len, out)
    /\ UNCHANGED restOfEfd

eventfd_pal_write(offset, len, out) ==
    /\ efd.open
    /\ efd.n < MaxEfdOps
    /\ efd' = eventfd_pal_write_(efd, offset, len, out)
    /\ UNCHANGED restOfEfd

eventfd_pal_attrquerybyhdl(out) ==
    /\ efd.open
    /\ efd.n < MaxEfdOps
    /\ efd' = eventfd_pal_attrquerybyhdl_(efd, out)
    /\ UNCHANGED restOfEfd

eventfd_pal_close ==
    /\ efd.open
    /\ efd.n < MaxEfdOps
    /\ efd' = eventfd_pal_close_(efd)
    /\ UNCHANGED restOfEfd


-----------------------------------------------------------------------------
(* Threads.  sub[t] is the call a thread is in the middle of, after the    *)
(* section it ran under the lock.                                          *)

NoSub == [op |-> "none", p |-> 0, flag |-> FALSE, new |-> 0, cb |-> <<>>,
          code |-> 0]

IN_HELPER(t) == ipc_helper_thread # 0 /\ ipc_helper_thread = t

ipc_event_handle == 99

NoHelper == [pc |-> "none", local_pobjs |-> <<>>,
             local_ports |-> <<ipc_event_handle>>, nalive |-> 0, cur |-> 0,
             compact |-> 0]

\* recv[t]: where thread t is in receive_ipc_message (read: in the loop,
\* end: at the put_ipc_port that ends it), with the arguments of the call
NoRecv == [pc |-> "none", p |-> 0, seq |-> 0, msgptr |-> FALSE]

\* rx before any frame is read; rx.last is the frame read last with what
\* became of it (out) and what its callback returned (ret)
NoFrame == [n |-> 0, last |-> [out |-> "none"]]

\* lock(ipc_helper_lock) returns at once: nobody holds the lock
Unlocked == ipc_helper_lock = 0

\* thread t is in no call of the module
Idle(t) == sub[t].op = "none" /\ recv[t].pc = "none"

\* get_new_internal_thread: a thread object (0 when there is none)
NewThread ==
    LET free == { h \in Helpers : helper[h].pc = "none" }
    IN  IF free = {} THEN 0 ELSE CHOOSE h \in free : \A g \in free : h <= g

\* what a thread does next after a locked section that asked for a
\* restart of the helper
AfterLocked(t, need_restart, need_create) ==
    IF need_restart
    THEN [NoSub EXCEPT !.op = "restart", !.flag = need_create]
    ELSE NoSub

Init ==
    /\ ipc_helper_state = "UNINITIALIZED"
    /\ ipc_helper_thread = 0
    /\ ipc_helper_update = FALSE
    /\ ipc_helper_event = FALSE
    /\ port = [p \in 1 .. MaxPorts |-> FreePort]
    /\ pobj_list = <<>>
    /\ ipc_port_pool = [b \in Buckets |-> <<>>]
    /\ broadcast_port = 0
    /\ closed = [hd \in 1 .. MaxHandles |-> 0]
    /\ fini_log = [p \in Ports |-> NoLog]
    /\ held = [p \in Ports |-> 0]
    /\ helper = [h \in Helpers |-> NoHelper]
    /\ sub = [t \in Threads |-> NoSub]
    /\ cleaned = 0
    /\ pal = NoPal
    /\ efd = NoEfd
    /\ ipc_helper_lock = 0
    /\ sent = <<>>
    /\ rx = NoFrame
    /\ req = <<>>
    /\ recv = [t \in Threads |-> NoRecv]
    /\ bcast = <<>>
    /\ exit_ret = [t \in Threads |-> <<>>]
    /\ ops = 0

-----------------------------------------------------------------------------
(* Life cycle of the helper *)

\* the body of create_ipc_helper after its first, unlocked test
CreateBegin(t) ==
    IF ipc_helper_state = "ALIVE" \/ NewThread = 0
    THEN /\ sub' = [sub EXCEPT ![t] = NoSub]
         /\ UNCHANGED helper
    ELSE /\ sub' = [sub EXCEPT ![t] = [NoSub EXCEPT !.op = "create_lock",
                                                   !.new = NewThread]]
         /\ helper' = [helper EXCEPT ![NewThread].pc = "new"]

\* create_ipc_helper called by a thread of the application, once
\* init_ipc_helper has made the lock
CreateIpcHelper(t) ==
    /\ Idle(t)
    /\ ipc_helper_state \notin {"UNINITIALIZED", "DELAYED"}
    /\ CreateBegin(t)
    /\ UNCHANGED <<ipc_helper_state, ipc_helper_thread, ipc_helper_update,
                   ipc_helper_event, port, pobj_list, ipc_port_pool, fini_log,
                   broadcast_port, closed, held, cleaned, pal, efd,
                   ipc_helper_lock, ioVars>>

\* an init_ipc_helper that forgets the deferred request
InitIpcHelperForget(t) ==
    /\ Idle(t)
    /\ ipc_helper_state \in {"UNINITIALIZED", "DELAYED"}
    /\ ipc_helper_state' = "NOTALIVE"
    /\ UNCHANGED <<ipc_helper_thread, ipc_helper_update, ipc_helper_event,
                   port, pobj_list, ipc_port_pool, fini_log, broadcast_port,
                   closed, held, helper, sub, cleaned, pal, efd,
                   ipc_helper_lock, ioVars>>

\* init_ipc_helper
InitIpcHelper(t) ==
    /\ Idle(t)
    /\ ipc_helper_state \in {"UNINITIALIZED", "DELAYED"}
    /\ ipc_helper_state' = "NOTALIVE"
    /\ IF ipc_helper_state = "DELAYED"
       THEN IF NewThread = 0
            THEN UNCHANGED <<sub, helper>>
            ELSE /\ sub' = [sub EXCEPT ![t] =
                              [NoSub EXCEPT !.op = "create_lock",
                                            !.new = NewThread]]
                 /\ helper' = [helper EXCEPT ![NewThread].pc = "new"]
       ELSE UNCHANGED <<sub, helper>>
    /\ UNCHANGED <<ipc_helper_thread, ipc_helper_update, ipc_helper_event,
                   port, pobj_list, ipc_port_pool, fini_log, broadcast_port,
                   closed, held, cleaned, pal, efd, ipc_helper_lock, ioVars>>

\* a restart that signals the event whatever the state
RestartIpcHelperSignal(t) ==
    /\ sub[t].op = "restart"
    /\ ipc_helper_event' = TRUE
    /\ sub' = [sub EXCEPT ![t] = NoSub]
    /\ UNCHANGED <<ipc_helper_state, ipc_helper_thread, ipc_helper_update,
                   port, pobj_list, ipc_port_pool, fini_log, broadcast_port,
                   closed, held, helper, cleaned, pal, efd, ipc_helper_lock,
                   ioVars>>

\* restart_ipc_helper
RestartIpcHelper(t) ==
    /\ sub[t].op = "restart"
    /\ CASE ipc_helper_state = "UNINITIALIZED" ->
              /\ ipc_helper_state' = "DELAYED"
              /\ sub' = [sub EXCEPT ![t] = NoSub]
              /\ UNCHANGED <<ipc_helper_update, ipc_helper_event, helper>>
         [] ipc_helper_state = "DELAYED" ->
              /\ sub' = [sub EXCEPT ![t] = NoSub]
              /\ UNCHANGED <<ipc_helper_state, ipc_helper_update,
                             ipc_helper_event, helper>>
         [] ipc_helper_state = "NOTALIVE" ->
              /\ IF sub[t].flag
                 THEN CreateBegin(t)
                 ELSE /\ sub' = [sub EXCEPT ![t] = NoSub]
                      /\ UNCHANGED helper
              /\ UNCHANGED <<ipc_helper_state, ipc_helper_update,
                             ipc_helper_event>>
         [] ipc_helper_state = "ALIVE" ->
              /\ IF IN_HELPER(t)
                 THEN /\ ipc_helper_update' = TRUE
                      /\ UNCHANGED ipc_helper_event
                 ELSE /\ ipc_helper_event' = TRUE
                      /\ UNCHANGED ipc_helper_update
              /\ sub' = [sub EXCEPT ![t] = NoSub]
              /\ UNCHANGED <<ipc_helper_state, helper>>
         [] ipc_helper_state = "HANDEDOVER" ->
              /\ ipc_helper_update' = TRUE
              /\ sub' = [sub EXCEPT ![t] = NoSub]
              /\ UNCHANGED <<ipc_helper_state, ipc_helper_event, helper>>
    /\ UNCHANGED <<ipc_helper_thread, port, pobj_list, ipc_port_pool, fini_log,
                   broadcast_port, closed, held, cleaned, pal, efd,
                   ipc_helper_lock, ioVars>>

\* create_ipc_helper, the section under the lock
CreateLocked(t) ==
    /\ sub[t].op = "create_lock"
    /\ Unlocked
    /\ IF ipc_helper_state = "ALIVE"
       THEN /\ helper' = [helper EXCEPT ![sub[t].new] = NoHelper]
            /\ sub' = [sub EXCEPT ![t] = NoSub]
            /\ UNCHANGED <<ipc_helper_state, ipc_helper_thread>>
       ELSE /\ ipc_helper_thread' = sub[t].new
            /\ ipc_helper_state' = "ALIVE"
            /\ sub' = [sub EXCEPT ![t].op = "create_spawn"]
            /\ UNCHANGED helper
    /\ UNCHANGED <<ipc_helper_update, ipc_helper_event, port, pobj_list,
                   ipc_port_pool, fini_log, broadcast_port, closed, held,
                   cleaned, pal, efd, ipc_helper_lock, ioVars>>

\* create_ipc_helper, thread_create succeeds: the new thread starts
CreateSpawn(t) ==
    /\ sub[t].op = "create_spawn"
    /\ helper' = [helper EXCEPT ![sub[t].new].pc = "start"]
    /\ sub' = [sub EXCEPT ![t] = NoSub]
    /\ UNCHANGED <<ipc_helper_state, ipc_helper_thread, ipc_helper_update,
                   ipc_helper_event, port, pobj_list, ipc_port_pool, fini_log,
                   broadcast_port, closed, held, cleaned, pal, efd,
                   ipc_helper_lock, ioVars>>

\* create_ipc_helper, thread_create fails
CreateSpawnFail(t) ==
    /\ sub[t].op = "create_spawn"
    /\ Unlocked
    /\ ipc_helper_thread' = 0
    /\ ipc_helper_state' = "NOTALIVE"
    /\ helper' = [helper EXCEPT ![sub[t].new].pc = "done"]
    /\ sub' = [sub EXCEPT ![t] = NoSub]
    /\ UNCHANGED <<ipc_helper_update, ipc_helper_event, port, pobj_list,
                   ipc_port_pool, fini_log, broadcast_port, closed, held,
                   cleaned, pal, efd, ipc_helper_lock, ioVars>>

\* a helper that has passed the test of ipc_helper_thread (line 780) and
\* has not yet left the while loop for the labels at its end
InLoop(h) ==
    helper[h].pc \in {"update_status", "update_list", "wait", "after_read"}

\* exit_with_ipc_helper, line 1040: the helper itself, or a state other
\* than ALIVE: 0 is returned
ExitWithIpcHelper(t, handover) ==
    /\ Idle(t)
    /\ t \in Helpers => IN_HELPER(t) /\ InLoop(t)
    /\ IF IN_HELPER(t) \/ ipc_helper_state # "ALIVE"
       THEN /\ exit_ret' = [exit_ret EXCEPT ![t] = <<0>>]
            /\ UNCHANGED sub
       ELSE /\ exit_ret' = [exit_ret EXCEPT ![t] = <<>>]
            /\ sub' = [sub EXCEPT ![t] = [NoSub EXCEPT !.op = "exit_scan",
                                                      !.flag = handover]]
    /\ UNCHANGED <<ipc_helper_state, ipc_helper_thread, ipc_helper_update,
                   ipc_helper_event, port, pobj_list, ipc_port_pool, fini_log,
                   broadcast_port, closed, held, helper, cleaned, pal, efd,
                   ipc_helper_lock, sent, rx,
                   req, recv, bcast>>

\* a scan that takes the caller's word for it
ExitScanBlind(t) ==
    /\ sub[t].op = "exit_scan"
    /\ sub' = [sub EXCEPT ![t].op = "exit_xchg"]
    /\ UNCHANGED <<ipc_helper_state, ipc_helper_thread, ipc_helper_update,
                   ipc_helper_event, port, pobj_list, ipc_port_pool, fini_log,
                   broadcast_port, closed, held, helper, cleaned, pal, efd,
                   ipc_helper_lock, ioVars>>

\* exit_with_ipc_helper, lines 1043-1053: the scan of the list under the
\* lock
ExitScan(t) ==
    /\ sub[t].op = "exit_scan"
    /\ Unlocked
    /\ sub' = [sub EXCEPT ![t].op = "exit_xchg",
                          ![t].flag = /\ sub[t].flag
                                      /\ \E i \in 1 .. Len(pobj_list) :
                                           port[pobj_list[i]].type
                                             \cap IPC_PORT_KEEPALIVE # {}]
    /\ UNCHANGED <<ipc_helper_state, ipc_helper_thread, ipc_helper_update,
                   ipc_helper_event, port, pobj_list, ipc_port_pool, fini_log,
                   broadcast_port, closed, held, helper, cleaned, pal, efd,
                   ipc_helper_lock, ioVars>>

\* exit_with_ipc_helper, lines 1055-1066: the new state is stored, the
\* event is set and the call returns
ExitXchg(t) ==
    /\ sub[t].op = "exit_xchg"
    /\ ipc_helper_state' = IF sub[t].flag THEN "HANDEDOVER" ELSE "NOTALIVE"
    /\ ipc_helper_event' = TRUE
    /\ exit_ret' = [exit_ret EXCEPT ![t] =
                      <<IF sub[t].flag THEN -EAGAIN ELSE 0>>]
    /\ sub' = [sub EXCEPT ![t] = NoSub]
    /\ UNCHANGED <<ipc_helper_thread, ipc_helper_update, port, pobj_list,
                   ipc_port_pool, fini_log, broadcast_port, closed, held,
                   helper, cleaned, pal, efd, ipc_helper_lock, sent, rx, req,
                   recv, bcast>>

\* terminate_ipc_helper
TerminateIpcHelper(t) ==
    /\ Idle(t)
    /\ Unlocked
    /\ ipc_helper_thread # 0
    /\ ipc_helper_state' = "NOTALIVE"
    /\ ipc_helper_event' = TRUE
    /\ UNCHANGED <<ipc_helper_thread, ipc_helper_update, port, pobj_list,
                   ipc_port_pool, fini_log, broadcast_port, closed, held,
                   helper, sub, cleaned, pal, efd, ipc_helper_lock, ioVars>>

-----------------------------------------------------------------------------
(* Registry operations of a thread t.  A caller passes a port only while   *)
(* it holds a reference to it (held).                                      *)

\* the stream handle the platform hands out next (0 when the model has
\* no more), and the handles a caller can pass: that one, and those of
\* the ports that exist
NewHandle ==
    LET new == { hd \in Handles : /\ closed[hd] = 0
                                  /\ \A q \in Ports : port[q].pal_handle # hd }
    IN  IF new = {} THEN 0 ELSE CHOOSE hd \in new : \A g \in new : hd <= g

Passable(hdl) ==
    \/ hdl = NewHandle
    \/ \E q \in Ports : port[q].alloc /\ port[q].pal_handle = hdl

\* add_ipc_port_by_id, the section under the lock; keep: the caller
\* passes portptr and keeps the reference.  p = 0: no port and none to
\* be had from the memory manager.
add_ipc_port_by_id_(R, vmid, hdl, type, fini, keep) ==
    LET found == FindPort(R, vmid, hdl)
        p     == IF found # 0 THEN found ELSE FreeSlot(R)
        R0    == IF found # 0
                 THEN get_ipc_port_(R, p)
                 ELSE get_new_ipc_port_(R, p, hdl)
        a     == add_ipc_port_(R0, p, vmid, type, fini)
    IN  IF p = 0
        THEN [R |-> R, p |-> 0, need_restart |-> FALSE]
        ELSE [R |-> IF keep THEN a.R ELSE put_ipc_port_(a.R, p),
              p |-> p, need_restart |-> a.need_restart]

\* add_ipc_port_by_id; wantptr: the caller passes portptr
AddIpcPortById(t, vmid, hdl, type, fini, wantptr) ==
    /\ Idle(t)
    /\ Unlocked
    /\ Passable(hdl)
    /\ LET a == add_ipc_port_by_id_(Reg, vmid, hdl, type, fini, wantptr)
       IN  /\ a.p # 0
           /\ wantptr => held[a.p] < MaxHeld
           /\ SetReg(a.R)
           /\ held' = IF wantptr
                      THEN [held EXCEPT ![a.p] = @ + 1]
                      ELSE held
           /\ sub' = [sub EXCEPT ![t] = AfterLocked(t, a.need_restart, TRUE)]
    /\ UNCHANGED <<ipc_helper_state, ipc_helper_thread, ipc_helper_update,
                   ipc_helper_event, broadcast_port, helper, cleaned, pal,
                   efd, ipc_helper_lock,
                   ioVars>>

\* add_ipc_port_by_id when no port is found and __get_new_ipc_port has no
\* memory, lines 364-367: NULL is stored through portptr and the function
\* returns as it stands
AddIpcPortByIdFail(t, vmid, hdl, type, fini) ==
    /\ Idle(t)
    /\ Unlocked
    /\ Passable(hdl)
    /\ add_ipc_port_by_id_(Reg, vmid, hdl, type, fini, TRUE).p = 0
    /\ ipc_helper_lock' = t
    /\ UNCHANGED <<ipc_helper_state, ipc_helper_thread, ipc_helper_update,
                   ipc_helper_event, port, pobj_list, ipc_port_pool,
                   fini_log, broadcast_port, closed, held, helper, sub,
                   cleaned, pal, efd, ioVars>>

\* init_ipc_ports, lines 171-173: the broadcast stream of the platform is
\* admitted and kept in broadcast_port
InitIpcPorts(t) ==
    /\ Idle(t)
    /\ Unlocked
    /\ broadcast_port = 0
    /\ NewHandle # 0
    /\ LET a == add_ipc_port_by_id_(Reg, 0, NewHandle, IPC_PORT_LISTEN,
                                    "ipc_broadcast_exit", TRUE)
       IN  /\ a.p # 0
           /\ SetReg(a.R)
           /\ broadcast_port' = a.p
           /\ sub' = [sub EXCEPT ![t] = AfterLocked(t, a.need_restart, TRUE)]
    /\ UNCHANGED <<ipc_helper_state, ipc_helper_thread, ipc_helper_update,
                   ipc_helper_event, held, helper, cleaned, pal, efd,
                   ipc_helper_lock, ioVars>>

\* add_ipc_port
AddIpcPort(t, p, vmid, type, fini) ==
    /\ Idle(t)
    /\ Unlocked
    /\ held[p] > 0
    /\ LET a == add_ipc_port_(Reg, p, vmid, type, fini)
       IN  /\ SetReg(a.R)
           /\ sub' = [sub EXCEPT ![t] = AfterLocked(t, a.need_restart, TRUE)]
    /\ UNCHANGED <<ipc_helper_state, ipc_helper_thread, ipc_helper_update,
                   ipc_helper_event, broadcast_port, held, helper, cleaned,
                   pal, efd, ipc_helper_lock,
                   ioVars>>

\* del_ipc_port
DelIpcPort(t, p, type) ==
    /\ Idle(t)
    /\ Unlocked
    /\ held[p] > 0
    /\ LET d == del_ipc_port_(Reg, p, type)
       IN  /\ SetReg(d.R)
           /\ sub' = [sub EXCEPT ![t] = AfterLocked(t, d.need_restart, FALSE)]
    /\ UNCHANGED <<ipc_helper_state, ipc_helper_thread, ipc_helper_update,
                   ipc_helper_event, broadcast_port, held, helper, cleaned,
                   pal, efd, ipc_helper_lock,
                   ioVars>>

\* the loops of del_ipc_port_by_id and del_all_ipc_ports over a snapshot
\* of the bucket or list (the _safe iterators), Sel(R, q) being the test
\* made on each entry
RECURSIVE DelEach(_, _, _, _, _)
DelEach(R, todo, type, Sel(_, _), need_restart) ==
    IF todo = <<>>
    THEN [R |-> R, need_restart |-> need_restart]
    ELSE IF Sel(R, Head(todo))
         THEN LET d == del_ipc_port_(R, Head(todo), type)
              IN  DelEach(d.R, Tail(todo), type, Sel,
                          need_restart \/ d.need_restart)
         ELSE DelEach(R, Tail(todo), type, Sel, need_restart)

\* del_ipc_port_by_id
DelIpcPortById(t, vmid, type) ==
    /\ Idle(t)
    /\ Unlocked
    /\ LET d == DelEach(Reg, ipc_port_pool[PID_HASH(vmid)], type,
                        LAMBDA R, q : R.port[q].vmid = vmid, FALSE)
       IN  /\ SetReg(d.R)
           /\ sub' = [sub EXCEPT ![t] = AfterLocked(t, d.need_restart, FALSE)]
    /\ UNCHANGED <<ipc_helper_state, ipc_helper_thread, ipc_helper_update,
                   ipc_helper_event, broadcast_port, held, helper, cleaned,
                   pal, efd, ipc_helper_lock,
                   ioVars>>

\* del_all_ipc_ports
DelAllIpcPorts(t, type) ==
    /\ Idle(t)
    /\ Unlocked
    /\ LET d == DelEach(Reg, pobj_list, type,
                        LAMBDA R, q : R.port[q].pal_handle # 0, FALSE)
       IN  /\ SetReg(d.R)
           /\ sub' = [sub EXCEPT ![t] = AfterLocked(t, d.need_restart, FALSE)]
    /\ UNCHANGED <<ipc_helper_state, ipc_helper_thread, ipc_helper_update,
                   ipc_helper_event, broadcast_port, held, helper, cleaned,
                   pal, efd, ipc_helper_lock,
                   ioVars>>

\* lookup_ipc_port, when a port is found
LookupIpcPort(t, vmid, type) ==
    /\ Idle(t)
    /\ Unlocked
    /\ LET p == lookup_ipc_port_(Reg, vmid, type)
       IN  /\ p # 0
           /\ held[p] < MaxHeld
           /\ SetReg(get_ipc_port_(Reg, p))
           /\ held' = [held EXCEPT ![p] = @ + 1]
    /\ UNCHANGED <<ipc_helper_state, ipc_helper_thread, ipc_helper_update,
                   ipc_helper_event, broadcast_port, helper, sub, cleaned,
                   pal, efd, ipc_helper_lock,
                   ioVars>>

\* put_ipc_port by a caller that holds a reference
PutIpcPort(t, p) ==
    /\ Idle(t)
    /\ held[p] > 0
    /\ SetReg(put_ipc_port_(Reg, p))
    /\ held' = [held EXCEPT ![p] = @ - 1]
    /\ UNCHANGED <<ipc_helper_state, ipc_helper_thread, ipc_helper_update,
                   ipc_helper_event, broadcast_port, helper, sub, cleaned,
                   pal, efd, ipc_helper_lock,
                   ioVars>>

-----------------------------------------------------------------------------
(* del_ipc_port_fini, in two steps: the section under ipc_helper_lock,     *)
(* then the callbacks, the pending requests and the release.               *)

\* the exit codes an application thread tears a port down with
ExitCodes == {0, -ECHILD}

\* the non-NULL entries of port->fini, in order
RECURSIVE FiniOf(_, _)
FiniOf(f, i) ==
    IF i > MAX_IPC_PORT_FINI_CB THEN <<>>
    ELSE (IF f[i] # "NULL" THEN <<f[i]>> ELSE <<>>) \o FiniOf(f, i + 1)

\* lines 460-472.  exitcode is the argument as the call writes it, a
\* negated errno; the callbacks get it back from the unsigned parameter.
FiniLocked(t, p, exitcode) ==
    LET R0 == get_ipc_port_([Reg EXCEPT !.port[p].fini = NullFini], p)
        d  == del_ipc_port_(R0, p, {})
    IN  /\ Unlocked
        /\ SetReg(d.R)
        /\ sub' = [sub EXCEPT ![t] = [NoSub EXCEPT !.op = "fini_rest",
                                                  !.p = p,
                                                  !.flag = d.need_restart,
                                                  !.cb = FiniOf(port[p].fini, 1),
                                                  !.code = exitcode]]

\* the callbacks taken from port->fini are called, lines 474-477;
\* ipc_broadcast_exit is the fini callback of the broadcast port
RECURSIVE RunFini(_, _, _)
RunFini(X, cbs, p) ==
    IF cbs = <<>> THEN X
    ELSE LET Y == [X EXCEPT !.R.log[p].called = @ + 1]
         IN  IF Head(cbs) = "ipc_broadcast_exit" /\ Y.bp = p
             THEN RunFini([R |-> put_ipc_port_(Y.R, p), bp |-> 0],
                          Tail(cbs), p)
             ELSE RunFini(Y, Tail(cbs), p)

\* the pending requests of a torn-down port (lines 479-492): each one is
\* unlinked, gets -ECONNRESET and its thread is woken
Reset(q, msgs) ==
    [s \in DOMAIN q |->
        IF s \in Range(msgs)
        THEN [q[s] EXCEPT !.retval = -ECONNRESET, !.woken = @ + 1]
        ELSE q[s]]

\* lines 474-498
FiniRest(t) ==
    /\ sub[t].op = "fini_rest"
    /\ LET p  == sub[t].p
           X  == RunFini([R |-> Reg, bp |-> broadcast_port], sub[t].cb, p)
           drain == ~list_empty(X.R, p)
           R1 == IF drain THEN [X.R EXCEPT !.port[p].msgs = <<>>] ELSE X.R
       IN  /\ SetReg(put_ipc_port_(R1, p))
           /\ broadcast_port' = X.bp
           /\ req' = IF drain THEN Reset(req, X.R.port[p].msgs) ELSE req
           /\ sub' = [sub EXCEPT ![t] = AfterLocked(t, sub[t].flag, FALSE)]
    /\ UNCHANGED <<ipc_helper_state, ipc_helper_thread, ipc_helper_update,
                   ipc_helper_event, held, helper, cleaned, pal, efd,
                   ipc_helper_lock, sent, rx, recv,
                   bcast,
                   exit_ret>>

\* del_ipc_port_fini called by an application thread
DelIpcPortFini(t, p) ==
    /\ Idle(t)
    /\ held[p] > 0
    /\ \E exitcode \in ExitCodes : FiniLocked(t, p, exitcode)
    /\ UNCHANGED <<ipc_helper_state, ipc_helper_thread, ipc_helper_update,
                   ipc_helper_event, broadcast_port, held, helper, cleaned,
                   pal, efd, ipc_helper_lock,
                   ioVars>>

-----------------------------------------------------------------------------
(* Messages: duplex requests, the response callback and the loop of        *)
(* receive_ipc_message.  A frame is [code, src, seq, retval]; a request is *)
(* req[seq] = [p, retval, woken], linked on port p while seq is in the     *)
(* port's msgs.                                                            *)

\* a thread sends a duplex request on a port of the registry it holds: the
\* request gets the next sequence number and is linked on the port
Attach(t, p) ==
    /\ Idle(t)
    /\ held[p] > 0
    /\ ~list_empty(Reg, p)
    /\ Len(req) < MaxReqs
    /\ port' = [port EXCEPT ![p].msgs = Append(@, Len(req) + 1)]
    /\ req' = Append(req, [p |-> p, retval |-> 0, woken |-> 0])
    /\ UNCHANGED <<ipc_helper_state, ipc_helper_thread, ipc_helper_update,
                   ipc_helper_event, pobj_list, ipc_port_pool, fini_log,
                   broadcast_port, closed, held, helper, sub, cleaned, pal,
                   efd, ipc_helper_lock, sent,
                   rx, recv, bcast,
                   exit_ret>>

\* find_ipc_msg_duplex: the request with this sequence number is taken
\* off the port's list (obj = 0 when there is none)
find_ipc_msg_duplex(R, p, seq) ==
    IF seq \in Range(R.port[p].msgs)
    THEN [R |-> [R EXCEPT !.port[p].msgs = Remove(@, seq)], obj |-> seq]
    ELSE [R |-> R, obj |-> 0]

\* ipc_resp_callback that does not store the result in the request
ipc_resp_callback_noret(R, q, p, msg) ==
    IF msg.seq = 0
    THEN [R |-> R, req |-> q, ret |-> msg.retval]
    ELSE LET f == find_ipc_msg_duplex(R, p, msg.seq)
         IN  IF f.obj # 0
             THEN [R |-> f.R,
                   req |-> [q EXCEPT ![f.obj].woken = @ + 1],
                   ret |-> 0]
             ELSE [R |-> R, req |-> q, ret |-> msg.retval]

\* ipc_resp_callback
ipc_resp_callback(R, q, p, msg) ==
    IF msg.seq = 0
    THEN [R |-> R, req |-> q, ret |-> msg.retval]
    ELSE LET f == find_ipc_msg_duplex(R, p, msg.seq)
         IN  IF f.obj # 0
             THEN [R |-> f.R,
                   req |-> [q EXCEPT ![f.obj].retval = msg.retval,
                                     ![f.obj].woken = @ + 1],
                   ret |-> 0]
             ELSE [R |-> R, req |-> q, ret |-> msg.retval]

\* a receive loop that takes no frame for an echo
FromNobody(msg) == FALSE

\* the test of line 740: the frame comes from this process
FromMyself(msg) == msg.src = cur_process_vmid

\* an IPC_RESP that carries the callback's return value as it is
response_ipc_message_raw(p, dest, ret, seq) ==
    [call |-> 0, p |-> p, dst |-> dest, code |-> "RESP", seq |-> seq,
     retval |-> ret, ok |-> TRUE]

\* __response_ipc_message: the IPC_RESP that is sent
response_ipc_message(p, dest, ret, seq) ==
    [call |-> 0, p |-> p, dst |-> dest, code |-> "RESP", seq |-> seq,
     retval |-> IF ret = RESPONSE_CALLBACK THEN 0 ELSE ret, ok |-> TRUE]

\* a match test that takes a frame only for the very sequence asked for
MatchedExact(msgptr, seq, msg) == msgptr /\ msg.seq = seq

\* the test of line 724: the caller gave an output slot and the frame has
\* the sequence it waits for (any frame when seq is 0)
Matched(msgptr, seq, msg) == msgptr /\ (seq = 0 \/ msg.seq = seq)

\* receive_ipc_message called by a thread of the application on a port it
\* holds (line 682)
RecvBegin(t, p, seq, msgptr) ==
    /\ Idle(t)
    /\ held[p] > 0
    /\ SetReg(get_ipc_port_(Reg, p))
    /\ recv' = [recv EXCEPT ![t] = [pc |-> "read", p |-> p, seq |-> seq,
                                    msgptr |-> msgptr]]
    /\ UNCHANGED <<ipc_helper_state, ipc_helper_thread, ipc_helper_update,
                   ipc_helper_event, broadcast_port, held, helper, sub,
                   cleaned, pal, efd, ipc_helper_lock, sent, rx, req, bcast,
                   exit_ret>>

\* one frame is read and handled (lines 715-756); cbret is what the
\* callback of a code other than IPC_RESP returns, more: bytes of a
\* further frame are in the buffer
RecvFrame(t, msg, cbret, more) ==
    /\ recv[t].pc = "read"
    /\ sub[t].op = "none"
    /\ rx.n < MaxFrames
    /\ (msg.code = "RESP" \/ FromMyself(msg)) => cbret = 0
    /\ LET p       == recv[t].p
           seq     == recv[t].seq
           matched == Matched(recv[t].msgptr, seq, msg)
           c       == IF msg.code = "RESP"
                      THEN ipc_resp_callback(Reg, req, p, msg)
                      ELSE [R |-> Reg, req |-> req, ret |-> cbret]
           respond == (c.ret < 0 \/ c.ret = RESPONSE_CALLBACK) /\ msg.seq # 0
           again   == more \/ (seq # 0 /\ msg.seq # seq)
           next    == IF again THEN recv
                      ELSE [recv EXCEPT ![t].pc = "end"]
           entry(out, ret) ==
               [n |-> rx.n + 1,
                last |-> [t |-> t, p |-> p, code |-> msg.code,
                          src |-> msg.src, seq |-> msg.seq,
                          retval |-> msg.retval, out |-> out, ret |-> ret]]
       IN  IF matched
           THEN /\ rx' = entry("returned", 0)
                /\ recv' = [recv EXCEPT ![t] = NoRecv]
                /\ UNCHANGED <<port, pobj_list, ipc_port_pool, fini_log,
                               closed, req, sent>>
           ELSE IF FromMyself(msg)
           THEN /\ rx' = entry("skipped", 0)
                /\ recv' = next
                /\ UNCHANGED <<port, pobj_list, ipc_port_pool, fini_log,
                               closed, req, sent>>
           ELSE /\ rx' = entry("callback", c.ret)
                /\ recv' = next
                /\ SetReg(c.R)
                /\ req' = c.req
                /\ sent' = IF respond
                           THEN Append(sent, response_ipc_message(
                                               p, msg.src, c.ret, msg.seq))
                           ELSE sent
    /\ UNCHANGED <<ipc_helper_state, ipc_helper_thread, ipc_helper_update,
                   ipc_helper_event, broadcast_port, held, helper, sub,
                   cleaned, pal, efd, ipc_helper_lock, bcast,
                   exit_ret>>

\* nothing is read (lines 704-713): with a stream error the port is torn
\* down, and the loop is left
RecvEof(t, err) ==
    /\ recv[t].pc = "read"
    /\ sub[t].op = "none"
    /\ IF err
       THEN FiniLocked(t, recv[t].p, -ECHILD)
       ELSE UNCHANGED <<port, pobj_list, ipc_port_pool, fini_log, closed, sub>>
    /\ recv' = [recv EXCEPT ![t].pc = "end"]
    /\ UNCHANGED <<ipc_helper_state, ipc_helper_thread, ipc_helper_update,
                   ipc_helper_event, broadcast_port, held, helper, cleaned,
                   pal, efd, ipc_helper_lock,
                   sent, rx, req, bcast,
                   exit_ret>>

\* the end of receive_ipc_message, lines 758-762
RecvEnd(t) ==
    /\ recv[t].pc = "end"
    /\ sub[t].op = "none"
    /\ SetReg(put_ipc_port_(Reg, recv[t].p))
    /\ recv' = [recv EXCEPT ![t] = NoRecv]
    /\ UNCHANGED <<ipc_helper_state, ipc_helper_thread, ipc_helper_update,
                   ipc_helper_event, broadcast_port, held, helper, sub,
                   cleaned, pal, efd, ipc_helper_lock, sent, rx, req, bcast,
                   exit_ret>>

-----------------------------------------------------------------------------
(* broadcast_ipc.  exclude is the set of ports in the caller's exclude     *)
(* array, failing the ports on which send_ipc_message fails.  A send is    *)
(* logged in sent with the number of the call, the port and msg.dst.       *)

\* an exclude scan that finds nothing
ExcludedNever(exclude, pobj) == FALSE

\* the scans of the exclude array, lines 560-561 and 583-586
Excluded(exclude, pobj) == pobj \in exclude

\* a fan-out that gives up at the first send that fails
RECURSIVE FanOutAbort(_, _, _, _, _)
FanOutAbort(R, todo, exclude, target_type, failing) ==
    IF todo = <<>> THEN <<>>
    ELSE LET pobj == Head(todo)
         IN  IF /\ R.port[pobj].type \cap target_type # {}
                /\ ~Excluded(exclude, pobj)
             THEN <<[p |-> pobj, dst |-> R.port[pobj].vmid,
                     ok |-> pobj \notin failing]>>
                  \o (IF pobj \in failing THEN <<>>
                      ELSE FanOutAbort(R, Tail(todo), exclude, target_type,
                                       failing))
             ELSE FanOutAbort(R, Tail(todo), exclude, target_type, failing)

\* the loop over pobj_list, lines 574-594: the sends it makes, in order
RECURSIVE FanOut(_, _, _, _, _)
FanOut(R, todo, exclude, target_type, failing) ==
    IF todo = <<>> THEN <<>>
    ELSE LET pobj == Head(todo)
             rest == FanOut(R, Tail(todo), exclude, target_type, failing)
         IN  IF /\ R.port[pobj].type \cap target_type # {}
                /\ ~Excluded(exclude, pobj)
             THEN <<[p |-> pobj, dst |-> R.port[pobj].vmid,
                     ok |-> pobj \notin failing]>> \o rest
             ELSE rest

\* broadcast_ipc: the sends it makes and what it returns; bp is
\* broadcast_port, dst the msg.dst the caller has set
broadcast_ipc_(R, bp, dst, exclude, target_type, failing) ==
    LET fan == FanOut(R, R.pobj_list, exclude, target_type, failing)
        own == <<[p |-> bp, dst |-> dst, ok |-> bp \notin failing]>>
    IN  IF target_type = {} /\ bp # 0
        THEN IF Excluded(exclude, bp)
             THEN [sends |-> <<>>, ret |-> 0]
             ELSE IF bp \notin failing
                  THEN [sends |-> own, ret |-> 0]
                  ELSE [sends |-> own \o fan, ret |-> 0]
        ELSE [sends |-> fan, ret |-> 0]

BroadcastIpc(t, dst, exclude, target_type, failing) ==
    /\ Idle(t)
    /\ Unlocked
    /\ Len(bcast) < MaxBcasts
    /\ exclude \subseteq { p \in Ports : port[p].alloc }
    /\ failing \subseteq { p \in Ports : port[p].alloc }
    /\ LET b == broadcast_ipc_(Reg, broadcast_port, dst, exclude,
                               target_type, failing)
           n == Len(bcast) + 1
       IN  /\ sent' = sent \o
                 [i \in 1 .. Len(b.sends) |->
                    [call |-> n, p |-> b.sends[i].p, dst |-> b.sends[i].dst,
                     code |-> "BCAST", seq |-> 0, retval |-> 0,
                     ok |-> b.sends[i].ok]]
           /\ bcast' = Append(bcast, [exclude |-> exclude,
                                      target_type |-> target_type,
                                      ret |-> b.ret])
    /\ UNCHANGED <<ipc_helper_state, ipc_helper_thread, ipc_helper_update,
                   ipc_helper_event, port, pobj_list, ipc_port_pool, fini_log,
                   broadcast_port, closed, held, helper, sub, cleaned, pal,
                   efd, ipc_helper_lock, rx,
                   req, recv, exit_ret>>

-----------------------------------------------------------------------------
(* The helper thread, shim_ipc_helper.  helper[h].pc is its position:      *)
(* new (allocated), start, update_status, update_list, wait (blocked in    *)
(* DkObjectsWaitAny), after_read, release (the loop of puts after the      *)
(* while), end, end_clear, done.                                           *)

\* lines 779-814
HelperStart(h) ==
    /\ helper[h].pc = "start"
    /\ Unlocked
    /\ helper' = [helper EXCEPT ![h] =
                    IF h # ipc_helper_thread
                    THEN [NoHelper EXCEPT !.pc = "done"]
                    ELSE [NoHelper EXCEPT !.pc = "update_status"]]
    /\ UNCHANGED <<ipc_helper_state, ipc_helper_thread, ipc_helper_update,
                   ipc_helper_event, port, pobj_list, ipc_port_pool, fini_log,
                   broadcast_port, closed, held, sub, cleaned, pal, efd,
                   ipc_helper_lock, ioVars>>

\* label update_status, lines 828-833
HelperUpdateStatus(h) ==
    /\ helper[h].pc = "update_status"
    /\ sub[h].op = "none"
    /\ helper' = [helper EXCEPT ![h].pc =
                    IF ipc_helper_state = "NOTALIVE"
                    THEN "end" ELSE "update_list"]
    /\ UNCHANGED <<ipc_helper_state, ipc_helper_thread, ipc_helper_update,
                   ipc_helper_event, port, pobj_list, ipc_port_pool, fini_log,
                   broadcast_port, closed, held, sub, cleaned, pal, efd,
                   ipc_helper_lock, ioVars>>

\* the test of the while loop, lines 816-817: where the helper goes
\* at the top of the loop
LoopTest(nalive) ==
    IF ipc_helper_state = "ALIVE" \/ nalive # 0 THEN "wait" ELSE "release"

\* label update_list, lines 886-966, and the test of the while loop that
\* follows it (the test reads ipc_helper_state and nalive only, so no
\* step of another thread distinguishes the two, taken together)
HelperUpdateList(h) ==
    /\ helper[h].pc = "update_list"
    /\ Unlocked
    /\ sub[h].op = "none"
    /\ ipc_helper_update' = FALSE
    /\ LET u == update_list(Reg, helper[h].local_pobjs,
                            Tail(helper[h].local_ports), helper[h].nalive)
       IN  /\ SetReg(u.R)
           /\ helper' = [helper EXCEPT ![h].pc = LoopTest(u.nalive),
                                       ![h].local_pobjs = u.lp,
                                       ![h].local_ports =
                                          <<ipc_event_handle>> \o u.lports,
                                       ![h].compact = u.compact,
                                       ![h].nalive = u.nalive,
                                       ![h].cur = 0]
    /\ UNCHANGED <<ipc_helper_state, ipc_helper_thread, ipc_helper_event,
                   broadcast_port, held, sub, cleaned, pal, efd,
                   ipc_helper_lock, ioVars>>

\* DkObjectsWaitAny returns NULL, or a handle that is not watched: the
\* loop goes round (lines 821-822, 844-845)
HelperSpurious(h) ==
    /\ helper[h].pc = "wait"
    /\ helper' = [helper EXCEPT ![h].pc = LoopTest(helper[h].nalive)]
    /\ UNCHANGED <<ipc_helper_state, ipc_helper_thread, ipc_helper_update,
                   ipc_helper_event, port, pobj_list, ipc_port_pool, fini_log,
                   broadcast_port, closed, held, sub, cleaned, pal, efd,
                   ipc_helper_lock, ioVars>>

\* DkObjectsWaitAny returns the event's handle, lines 826-827
HelperWakeup(h) ==
    /\ helper[h].pc = "wait"
    /\ ipc_helper_event
    /\ ipc_helper_event' = FALSE
    /\ helper' = [helper EXCEPT ![h].pc = "update_status"]
    /\ UNCHANGED <<ipc_helper_state, ipc_helper_thread, ipc_helper_update,
                   port, pobj_list, ipc_port_pool, fini_log, broadcast_port,
                   closed, held, sub, cleaned, pal, efd, ipc_helper_lock,
                   ioVars>>

\* the watched port whose handle DkObjectsWaitAny returned, lines 835-842
Polled(h, pobj) ==
    /\ helper[h].pc = "wait"
    /\ pobj \in Range(helper[h].local_pobjs)
    /\ pobj = FirstIn(helper[h].local_pobjs,
                      LAMBDA q : port[q].pal_handle = port[pobj].pal_handle)

\* a client port that keeps the role SERVER of the port it comes from
AcceptTypeServer(ptype) == ptype \cup IPC_PORT_LISTEN

\* the role mask of an accepted client, lines 852-853
AcceptType(ptype) == (ptype \ IPC_PORT_SERVER) \cup IPC_PORT_LISTEN

\* a server port accepts a client, lines 849-855 and 861-863
HelperAccept(h, pobj, cli) ==
    /\ Polled(h, pobj)
    /\ Unlocked
    /\ port[pobj].ptype \cap IPC_PORT_SERVER # {}
    /\ cli = NewHandle
    /\ LET type == AcceptType(port[pobj].ptype)
           p    == FreeSlot(Reg)
       IN  /\ p # 0
           /\ LET a == add_ipc_port_(get_new_ipc_port_(Reg, p, cli), p,
                                     port[pobj].pvmid, type, "NULL")
              IN  /\ SetReg(put_ipc_port_(a.R, p))
                  /\ sub' = [sub EXCEPT
                               ![h] = AfterLocked(h, a.need_restart, TRUE)]
    /\ helper' = [helper EXCEPT ![h].pc = "update_list", ![h].cur = 0]
    /\ UNCHANGED <<ipc_helper_state, ipc_helper_thread, ipc_helper_update,
                   ipc_helper_event, broadcast_port, held, cleaned, pal, efd,
                   ipc_helper_lock, ioVars>>

\* accepting fails, lines 856-863
HelperAcceptFail(h, pobj) ==
    /\ Polled(h, pobj)
    /\ port[pobj].ptype \cap IPC_PORT_SERVER # {}
    /\ FiniLocked(h, pobj, -ECHILD)
    /\ helper' = [helper EXCEPT ![h].pc = "update_list", ![h].cur = 0]
    /\ UNCHANGED <<ipc_helper_state, ipc_helper_thread, ipc_helper_update,
                   ipc_helper_event, broadcast_port, held, cleaned, pal, efd,
                   ipc_helper_lock, ioVars>>

\* the attribute query fails, lines 867-872
HelperQueryFail(h, pobj, errno) ==
    /\ Polled(h, pobj)
    /\ port[pobj].ptype \cap IPC_PORT_SERVER = {}
    /\ FiniLocked(h, pobj, -errno)
    /\ helper' = [helper EXCEPT ![h].pc = "update_list", ![h].cur = pobj]
    /\ UNCHANGED <<ipc_helper_state, ipc_helper_thread, ipc_helper_update,
                   ipc_helper_event, broadcast_port, held, cleaned, pal, efd,
                   ipc_helper_lock, ioVars>>

\* the port is readable: receive_ipc_message(pobj, 0, NULL) is entered
\* (lines 874-875, 682)
HelperReadable(h, pobj) ==
    /\ Polled(h, pobj)
    /\ port[pobj].ptype \cap IPC_PORT_SERVER = {}
    /\ recv[h].pc = "none"
    /\ SetReg(get_ipc_port_(Reg, pobj))
    /\ recv' = [recv EXCEPT ![h] = [pc |-> "read", p |-> pobj, seq |-> 0,
                                    msgptr |-> FALSE]]
    /\ helper' = [helper EXCEPT ![h].pc = "after_read", ![h].cur = pobj]
    /\ UNCHANGED <<ipc_helper_state, ipc_helper_thread, ipc_helper_update,
                   ipc_helper_event, broadcast_port, held, sub, cleaned, pal,
                   efd, ipc_helper_lock,
                   sent, rx, req, bcast,
                   exit_ret>>

\* the port is neither readable nor disconnected: lines 874-885
HelperRead(h, pobj) ==
    /\ Polled(h, pobj)
    /\ port[pobj].ptype \cap IPC_PORT_SERVER = {}
    /\ helper' = [helper EXCEPT ![h].pc =
                    IF ipc_helper_update THEN "update_list"
                    ELSE LoopTest(helper[h].nalive)]
    /\ UNCHANGED <<ipc_helper_state, ipc_helper_thread, ipc_helper_update,
                   ipc_helper_event, port, pobj_list, ipc_port_pool, fini_log,
                   broadcast_port, closed, held, sub, cleaned, pal, efd,
                   ipc_helper_lock, ioVars>>

\* the port is disconnected, lines 877-882
HelperDisconnected(h, pobj) ==
    /\ Polled(h, pobj)
    /\ port[pobj].ptype \cap IPC_PORT_SERVER = {}
    /\ FiniLocked(h, pobj, -ECONNRESET)
    /\ helper' = [helper EXCEPT ![h].pc = "update_list"]
    /\ UNCHANGED <<ipc_helper_state, ipc_helper_thread, ipc_helper_update,
                   ipc_helper_event, broadcast_port, held, cleaned, pal, efd,
                   ipc_helper_lock, ioVars>>

\* after receive_ipc_message has returned: the port is disconnected
\* (del_ipc_port_fini), or not (lines 877-885)
HelperAfterRead(h, disconnected) ==
    /\ helper[h].pc = "after_read"
    /\ sub[h].op = "none"
    /\ recv[h].pc = "none"
    /\ IF disconnected
       THEN /\ FiniLocked(h, helper[h].cur, -ECONNRESET)
            /\ helper' = [helper EXCEPT ![h].pc = "update_list"]
            /\ UNCHANGED <<ipc_helper_state, ipc_helper_thread,
                           ipc_helper_update, ipc_helper_event,
                           broadcast_port, held, cleaned, pal, efd,
                   ipc_helper_lock, ioVars>>
       ELSE /\ helper' = [helper EXCEPT ![h].pc =
                            IF ipc_helper_update THEN "update_list"
                            ELSE LoopTest(helper[h].nalive)]
            /\ UNCHANGED <<ipc_helper_state, ipc_helper_thread,
                           ipc_helper_update, ipc_helper_event, port,
                           pobj_list, ipc_port_pool, fini_log,
                           broadcast_port, closed, held, sub, cleaned, pal,
                   efd, ipc_helper_lock,
                           ioVars>>

\* the references of the watched ports are put, lines 969-972
RECURSIVE PutAll(_, _)
PutAll(R, lp) ==
    IF lp = <<>> THEN R ELSE PutAll(put_ipc_port_(R, Head(lp)), Tail(lp))

HelperRelease(h) ==
    /\ helper[h].pc = "release"
    /\ SetReg(PutAll(Reg, helper[h].local_pobjs))
    /\ helper' = [helper EXCEPT ![h].pc = "end", ![h].local_pobjs = <<>>,
                                ![h].local_ports = <<ipc_event_handle>>,
                                ![h].compact = 0]
    /\ UNCHANGED <<ipc_helper_state, ipc_helper_thread, ipc_helper_update,
                   ipc_helper_event, broadcast_port, held, sub, cleaned, pal,
                   efd, ipc_helper_lock,
                   ioVars>>

\* label end, lines 974-984
HelperEnd(h) ==
    /\ helper[h].pc = "end"
    /\ cleaned' = IF ipc_helper_state = "HANDEDOVER"
                  THEN cleaned + 1 ELSE cleaned
    /\ ipc_helper_state' = "NOTALIVE"
    /\ helper' = [helper EXCEPT ![h].pc = "end_clear"]
    /\ UNCHANGED <<ipc_helper_thread, ipc_helper_update, ipc_helper_event,
                   port, pobj_list, ipc_port_pool, fini_log, broadcast_port,
                   closed, held, sub, pal, efd, ipc_helper_lock, ioVars>>

\* lines 985-991
HelperEndClear(h) ==
    /\ helper[h].pc = "end_clear"
    /\ Unlocked
    /\ ipc_helper_thread' = 0
    /\ helper' = [helper EXCEPT ![h].pc = "done"]
    /\ UNCHANGED <<ipc_helper_state, ipc_helper_update, ipc_helper_event,
                   port, pobj_list, ipc_port_pool, fini_log, broadcast_port,
                   closed, held, sub, cleaned, pal, efd, ipc_helper_lock,
                   ioVars>>

-----------------------------------------------------------------------------
(* Specifications.                                                         *)
(* Spec: the registry operations of the application threads with the      *)
(* helper running: it starts where init_ipc_helper and create_ipc_helper   *)
(* have run and the helper is blocked in its first multi-wait.             *)
(* SpecLife: the life cycle of the helper from the start of the program    *)
(* (creation, handover, termination), over ports that come and go.         *)

\* an operation started by the application, within the budget
Started == ops < MaxOps /\ ops' = ops + 1

\* the helper, created and blocked in DkObjectsWaitAny with nothing to
\* watch yet
InitAlive ==
    /\ ipc_helper_state = "ALIVE"
    /\ ipc_helper_thread = 1
    /\ ipc_helper_update = FALSE
    /\ ipc_helper_event = FALSE
    /\ port = [p \in 1 .. MaxPorts |-> FreePort]
    /\ pobj_list = <<>>
    /\ ipc_port_pool = [b \in Buckets |-> <<>>]
    /\ broadcast_port = 0
    /\ closed = [hd \in 1 .. MaxHandles |-> 0]
    /\ fini_log = [p \in Ports |-> NoLog]
    /\ held = [p \in Ports |-> 0]
    /\ helper = [h \in Helpers |->
                   IF h = 1 THEN [NoHelper EXCEPT !.pc = "wait"]
                   ELSE NoHelper]
    /\ sub = [t \in Threads |-> NoSub]
    /\ cleaned = 0
    /\ pal = NoPal
    /\ efd = NoEfd
    /\ ipc_helper_lock = 0
    /\ sent = <<>>
    /\ rx = NoFrame
    /\ req = <<>>
    /\ recv = [t \in Threads |-> NoRecv]
    /\ bcast = <<>>
    /\ exit_ret = [t \in Threads |-> <<>>]
    /\ ops = 0

Admit(t) ==
    \/ \E vmid \in Vmids, hdl \in Handles, type \in AddTypes,
          wantptr \in BOOLEAN :
          AddIpcPortById(t, vmid, hdl, type, "NULL", wantptr)
    \/ \E p \in Ports, vmid \in Vmids, type \in AddTypes :
          AddIpcPort(t, p, vmid, type, "NULL")

Evict(t) ==
    \/ \E p \in Ports, type \in DelTypes : DelIpcPort(t, p, type)
    \/ \E vmid \in Vmids, type \in DelTypes : DelIpcPortById(t, vmid, type)
    \/ \E type \in DelTypes : DelAllIpcPorts(t, type)
    \/ \E p \in Ports : DelIpcPortFini(t, p)

Lookup(t) ==
    \/ \E vmid \in Vmids, type \in DelTypes : LookupIpcPort(t, vmid, type)
    \/ \E p \in Ports : PutIpcPort(t, p)

HelperPoll(h) ==
    \/ \E pobj \in Ports, cli \in Handles : HelperAccept(h, pobj, cli)
    \/ \E pobj \in Ports : HelperRead(h, pobj)
    \/ \E pobj \in Ports : HelperReadable(h, pobj)
    \/ \E pobj \in Ports : HelperDisconnected(h, pobj)
    \/ \E disconnected \in BOOLEAN : HelperAfterRead(h, disconnected)

\* receive_ipc_message on a stream that has nothing more to read
ReceiveEnds(t) ==
    \/ \E err \in BOOLEAN : RecvEof(t, err)
    \/ RecvEnd(t)

HelperRun(h) ==
    \/ HelperUpdateStatus(h)
    \/ HelperUpdateList(h)
    \/ HelperSpurious(h)
    \/ HelperWakeup(h)

Next ==
    \/ \E t \in Users : Started /\ Admit(t)
    \/ \E t \in Users : Started /\ Evict(t)
    \/ \E t \in Users : Started /\ Lookup(t)
    \/ \E t \in Threads : RestartIpcHelper(t) /\ UNCHANGED ops
    \/ \E t \in Threads : FiniRest(t) /\ UNCHANGED ops
    \/ \E t \in Threads : ReceiveEnds(t) /\ UNCHANGED ops
    \/ \E h \in Helpers : HelperRun(h) /\ UNCHANGED ops
    \/ \E h \in Helpers : HelperPoll(h) /\ UNCHANGED ops

Spec == InitAlive /\ [][Next]_vars

(* The life cycle *)

StartedLife == ops < MaxLifeOps /\ ops' = ops + 1

\* the role masks admitted in the life cycle: a polled port, a polled
\* keepalive port, and the keepalive role given to a port later on
LifeTypes == { IPC_PORT_LISTEN \cup IPC_PORT_IFPOLL,
               IPC_PORT_LISTEN \cup IPC_PORT_IFPOLL \cup IPC_PORT_KEEPALIVE }

\* add_ipc_port_by_id with a stream the platform has just handed out,
\* the caller keeping the port
AdmitNew(t, vmid, type, fini) ==
    /\ NewHandle # 0
    /\ AddIpcPortById(t, vmid, NewHandle, type, fini, TRUE)

AdmitLife(t) ==
    \/ \E type \in LifeTypes : AdmitNew(t, 1, type, "NULL")
    \/ \E p \in Ports : AddIpcPort(t, p, 1, IPC_PORT_KEEPALIVE, "NULL")

Leave(t) ==
    \/ \E handover \in BOOLEAN : ExitWithIpcHelper(t, handover)
    \/ t \in Users /\ TerminateIpcHelper(t)

Continue(t) ==
    \/ RestartIpcHelper(t)
    \/ CreateLocked(t)
    \/ CreateSpawn(t)
    \/ CreateSpawnFail(t)
    \/ ExitScan(t)
    \/ ExitXchg(t)
    \/ FiniRest(t)

HelperExit(h) ==
    \/ HelperStart(h)
    \/ HelperRelease(h)
    \/ HelperEnd(h)
    \/ HelperEndClear(h)

NextLife ==
    \/ \E t \in Users : StartedLife /\ InitIpcHelper(t)
    \/ \E t \in Users : StartedLife /\ CreateIpcHelper(t)
    \/ \E t \in Users : StartedLife /\ AdmitLife(t)
    \/ \E t \in Threads : StartedLife /\ Leave(t)
    \/ \E t \in Threads : Continue(t) /\ UNCHANGED ops
    \/ \E h \in Helpers : HelperRun(h) /\ UNCHANGED ops
    \/ \E h \in Helpers : HelperExit(h) /\ UNCHANGED ops
    \/ \E h \in Helpers, pobj \in Ports :
          HelperDisconnected(h, pobj) /\ UNCHANGED ops

SpecLife == Init /\ [][NextLife]_vars

(* The message traffic: requests are sent on a polled port, frames arrive *)
(* on it and are read by the helper or by the thread that waits for a     *)
(* reply, and the port is torn down.                                      *)

StartedMsg == ops < MaxMsgOps /\ ops' = ops + 1

\* the frames a peer sends, and what the callback of a code other than
\* IPC_RESP returns
Frames ==
    { msg \in [code : {"RESP", "OTHER"}, src : {1, cur_process_vmid},
               seq : 0 .. MaxReqs, retval : {-2, 0}] :
        msg.retval = IF msg.code = "RESP" THEN -2 ELSE 0 }

CbRets == {-2, 0, RESPONSE_CALLBACK}

Receive(t) ==
    \/ \E msg \in Frames, cbret \in CbRets, more \in BOOLEAN :
          RecvFrame(t, msg, cbret, more)
    \/ ReceiveEnds(t)

HelperReads(h) ==
    \/ \E pobj \in Ports : HelperReadable(h, pobj)
    \/ \E disconnected \in BOOLEAN : HelperAfterRead(h, disconnected)

\* a port of peer 1 has been admitted by add_ipc_port_by_id(1, hdl,
\* LISTEN|IFPOLL, NULL, &port) and the helper, woken, watches it
InitMsg ==
    /\ ipc_helper_state = "ALIVE"
    /\ ipc_helper_thread = 1
    /\ ipc_helper_update = FALSE
    /\ ipc_helper_event = FALSE
    /\ port = [p \in 1 .. MaxPorts |->
                 IF p = 1
                 THEN [FreePort EXCEPT
                         !.alloc = TRUE, !.pal_handle = 1, !.vmid = 1,
                         !.pvmid = 1,
                         !.type = IPC_PORT_LISTEN \cup IPC_PORT_IFPOLL,
                         !.ptype = IPC_PORT_LISTEN \cup IPC_PORT_IFPOLL,
                         !.ref_count = 4]
                 ELSE FreePort]
    /\ pobj_list = <<1>>
    /\ ipc_port_pool = [b \in Buckets |->
                          IF b = PID_HASH(1) THEN <<1>> ELSE <<>>]
    /\ broadcast_port = 0
    /\ closed = [hd \in 1 .. MaxHandles |-> 0]
    /\ fini_log = [p \in Ports |-> NoLog]
    /\ held = [p \in Ports |-> IF p = 1 THEN 1 ELSE 0]
    /\ helper = [h \in Helpers |->
                   IF h = 1
                   THEN [NoHelper EXCEPT !.pc = "wait",
                                         !.local_pobjs = <<1>>,
                                         !.local_ports =
                                            <<ipc_event_handle, 1>>]
                   ELSE NoHelper]
    /\ sub = [t \in Threads |-> NoSub]
    /\ cleaned = 0
    /\ pal = NoPal
    /\ efd = NoEfd
    /\ ipc_helper_lock = 0
    /\ sent = <<>>
    /\ rx = NoFrame
    /\ req = <<>>
    /\ recv = [t \in Threads |-> NoRecv]
    /\ bcast = <<>>
    /\ exit_ret = [t \in Threads |-> <<>>]
    /\ ops = 0

NextMsg ==
    \/ \E t \in Users, p \in Ports : Attach(t, p) /\ UNCHANGED ops
    \/ \E t \in Users, p \in Ports, seq \in 0 .. MaxReqs,
          msgptr \in BOOLEAN :
          StartedMsg /\ RecvBegin(t, p, seq, msgptr)
    \/ \E t \in Users, p \in Ports : StartedMsg /\ DelIpcPortFini(t, p)
    \/ \E t \in Threads : Receive(t) /\ UNCHANGED ops
    \/ \E t \in Threads : RestartIpcHelper(t) /\ UNCHANGED ops
    \/ \E t \in Threads : FiniRest(t) /\ UNCHANGED ops
    \/ \E h \in Helpers : HelperRun(h) /\ UNCHANGED ops
    \/ \E h \in Helpers : HelperReads(h) /\ UNCHANGED ops

SpecMsg == InitMsg /\ [][NextMsg]_vars

(* Broadcasts over a registry that is filled and emptied *)

StartedBcast == ops < MaxBcastOps /\ ops' = ops + 1

BcastTypes == { IPC_PORT_DIRPRT, IPC_PORT_LISTEN \cup IPC_PORT_IFPOLL }

TargetTypes == { {}, IPC_PORT_DIRPRT, IPC_PORT_LISTEN }

FillBcast(t) ==
    \/ InitIpcPorts(t)
    \/ \E vmid \in Vmids, type \in BcastTypes : AdmitNew(t, vmid, type, "NULL")

EmptyBcast(t) ==
    \/ \E p \in Ports : DelIpcPort(t, p, {})
    \/ \E p \in Ports : DelIpcPortFini(t, p)
    \/ /\ broadcast_port # 0
       /\ Idle(t)
       /\ FiniLocked(t, broadcast_port, 0)
       /\ UNCHANGED <<ipc_helper_state, ipc_helper_thread, ipc_helper_update,
                      ipc_helper_event, broadcast_port, held, helper,
                      cleaned, pal, efd, ipc_helper_lock, ioVars>>

NextBcast ==
    \/ \E t \in Users : StartedBcast /\ FillBcast(t)
    \/ \E t \in Users : StartedBcast /\ EmptyBcast(t)
    \/ \E t \in Users, exclude \in SUBSET Ports, target_type \in TargetTypes,
          failing \in SUBSET Ports :
          BroadcastIpc(t, 0, exclude, target_type, failing) /\ UNCHANGED ops
    \/ \E t \in Threads : RestartIpcHelper(t) /\ UNCHANGED ops
    \/ \E t \in Threads : FiniRest(t) /\ UNCHANGED ops
    \/ \E h \in Helpers : HelperRun(h) /\ UNCHANGED ops

SpecBcast == InitAlive /\ [][NextBcast]_vars

(* Ports that are admitted by add_ipc_port_by_id only, by the application *)
(* and by the helper when a server port accepts a client                   *)

StartedById == ops < MaxByIdOps /\ ops' = ops + 1

AdmitById(t) ==
    \E vmid \in Vmids, hdl \in Handles, type \in AddTypes, wantptr \in BOOLEAN :
       AddIpcPortById(t, vmid, hdl, type, "NULL", wantptr)

HelperServes(h) ==
    \/ \E pobj \in Ports, cli \in Handles : HelperAccept(h, pobj, cli)
    \/ \E pobj \in Ports : HelperDisconnected(h, pobj)

NextById ==
    \/ \E t \in Users : StartedById /\ AdmitById(t)
    \/ \E t \in Users : StartedById /\ Evict(t)
    \/ \E t \in Users, p \in Ports : StartedById /\ PutIpcPort(t, p)
    \/ \E t \in Threads : RestartIpcHelper(t) /\ UNCHANGED ops
    \/ \E t \in Threads : FiniRest(t) /\ UNCHANGED ops
    \/ \E h \in Helpers : HelperRun(h) /\ UNCHANGED ops
    \/ \E h \in Helpers : HelperServes(h) /\ UNCHANGED ops

SpecById == InitAlive /\ [][NextById]_vars

(* A server port that accepts clients *)

StartedAccept == ops < MaxAcceptOps /\ ops' = ops + 1

\* a server port has been admitted by add_ipc_port_by_id(0, hdl,
\* SERVER|IFPOLL, NULL, NULL) and the helper, woken, watches it; there is
\* room for MaxClients more ports
InitAccept ==
    /\ ipc_helper_state = "ALIVE"
    /\ ipc_helper_thread = 1
    /\ ipc_helper_update = FALSE
    /\ ipc_helper_event = FALSE
    /\ port = [p \in 1 .. (MaxClients + 1) |->
                 IF p = 1
                 THEN [FreePort EXCEPT
                         !.alloc = TRUE, !.pal_handle = 1,
                         !.type = IPC_PORT_SERVER \cup IPC_PORT_IFPOLL,
                         !.ptype = IPC_PORT_SERVER \cup IPC_PORT_IFPOLL,
                         !.ref_count = 2]
                 ELSE FreePort]
    /\ pobj_list = <<1>>
    /\ ipc_port_pool = [b \in Buckets |-> <<>>]
    /\ broadcast_port = 0
    /\ closed = [hd \in 1 .. (MaxClients + 1) |-> 0]
    /\ fini_log = [p \in Ports |-> NoLog]
    /\ held = [p \in Ports |-> 0]
    /\ helper = [h \in Helpers |->
                   IF h = 1
                   THEN [NoHelper EXCEPT !.pc = "wait",
                                         !.local_pobjs = <<1>>,
                                         !.local_ports =
                                            <<ipc_event_handle, 1>>]
                   ELSE NoHelper]
    /\ sub = [t \in Threads |-> NoSub]
    /\ cleaned = 0
    /\ pal = NoPal
    /\ efd = NoEfd
    /\ ipc_helper_lock = 0
    /\ sent = <<>>
    /\ rx = NoFrame
    /\ req = <<>>
    /\ recv = [t \in Threads |-> NoRecv]
    /\ bcast = <<>>
    /\ exit_ret = [t \in Threads |-> <<>>]
    /\ ops = 0

NextAccept ==
    \/ \E h \in Helpers, pobj \in Ports, cli \in Handles :
          HelperAccept(h, pobj, cli) /\ UNCHANGED ops
    \/ \E h \in Helpers, pobj \in Ports :
          HelperAcceptFail(h, pobj) /\ UNCHANGED ops
    \/ \E h \in Helpers, pobj \in Ports :
          HelperDisconnected(h, pobj) /\ UNCHANGED ops
    \/ \E h \in Helpers : HelperRun(h) /\ UNCHANGED ops
    \/ \E t \in Threads : RestartIpcHelper(t) /\ UNCHANGED ops
    \/ \E t \in Threads : FiniRest(t) /\ UNCHANGED ops
    \/ \E t \in Users : StartedAccept /\ AdmitById(t)

SpecAccept == InitAccept /\ [][NextAccept]_vars

(* The multi-wait of the platform, called once on handles of every kind *)

\* the handles: a slot is for reading, for writing, for both or unused;
\* the descriptors of a handle are different, the same in both slots, or
\* the second is poisoned
SlotKinds == {"none", "R", "W", "RW"}

FdHandle(kind, fds, writeable, error) ==
    [has_fds |-> TRUE, wait |-> FALSE,
     rfd |-> { j \in Slots : kind[j] \in {"R", "RW"} },
     wfd |-> { j \in Slots : kind[j] \in {"W", "RW"} },
     writeable |-> IF writeable
                   THEN { j \in Slots : kind[j] \in {"W", "RW"} } ELSE {},
     error |-> error, fds |-> fds]

FirstHandles ==
    { FdHandle(kind, fds, writeable, error) :
        kind \in [Slots -> SlotKinds],
        fds \in { [j \in Slots |-> 5 + j], [j \in Slots |-> 5] },
        writeable \in BOOLEAN, error \in {{}, {0}} }

OtherHandles ==
    { [NoHandle EXCEPT !.wait = w] : w \in BOOLEAN }
    \cup { FdHandle([j \in Slots |-> IF j = 0 THEN kind ELSE "none"],
                    [j \in Slots |-> IF j = 0 THEN fd
                                     ELSE PAL_IDX_POISON],
                    FALSE, {}) :
             kind \in {"R", "RW"}, fd \in {6, 7, PAL_IDX_POISON} }

\* what ppoll answers: an errno, or the condition of each descriptor; or
\* what the wait function of a handle without descriptors answers
Ready == {{}, {"POLLIN"}, {"POLLOUT", "POLLHUP"}, {"POLLERR"}}

Outcomes ==
    { [err |-> e, ready |-> [f \in Fds |-> {}], wait |-> "0"] :
         e \in {"EINTR", "ERESTART", "EBADF"} }
    \cup { [err |-> "none", ready |-> r, wait |-> "0"] :
              r \in [Fds -> Ready] }
    \cup { [err |-> "none", ready |-> [f \in Fds |-> {}], wait |-> w] :
              w \in {"PAL_ERROR_TRYAGAIN", "PAL_ERROR_INTERRUPTED"} }

HandleArrays ==
    UNION { [1 .. n -> {0} \cup (1 .. MaxPalHandles)] : n \in 1 .. 2 }

InitWait ==
    /\ ipc_helper_state = "UNINITIALIZED"
    /\ ipc_helper_thread = 0
    /\ ipc_helper_update = FALSE
    /\ ipc_helper_event = FALSE
    /\ port = [p \in 1 .. MaxPorts |-> FreePort]
    /\ pobj_list = <<>>
    /\ ipc_port_pool = [b \in Buckets |-> <<>>]
    /\ broadcast_port = 0
    /\ closed = [hd \in 1 .. MaxHandles |-> 0]
    /\ fini_log = [p \in Ports |-> NoLog]
    /\ held = [p \in Ports |-> 0]
    /\ helper = [h \in Helpers |-> NoHelper]
    /\ sub = [t \in Threads |-> NoSub]
    /\ cleaned = 0
    /\ sent = <<>>
    /\ rx = NoFrame
    /\ req = <<>>
    /\ recv = [t \in Threads |-> NoRecv]
    /\ bcast = <<>>
    /\ exit_ret = [t \in Threads |-> <<>>]
    /\ ops = 0
    /\ efd = NoEfd
    /\ ipc_helper_lock = 0
    /\ \E first \in FirstHandles, other \in OtherHandles :
          pal = [NoPal EXCEPT !.hdl = [h \in PalHandles |->
                                          IF h = 1 THEN first ELSE other]]

NextWait ==
    \E arr \in HandleArrays, out \in Outcomes : DkObjectsWaitAny(arr, out)

SpecWait == InitWait /\ [][NextWait]_vars

(* The registry when the memory manager runs out of ports *)

StartedAlloc == ops < MaxAllocOps /\ ops' = ops + 1

InitAlloc ==
    /\ ipc_helper_state = "ALIVE"
    /\ ipc_helper_thread = 1
    /\ ipc_helper_update = FALSE
    /\ ipc_helper_event = FALSE
    /\ port = [p \in 1 .. MaxAllocPorts |-> FreePort]
    /\ pobj_list = <<>>
    /\ ipc_port_pool = [b \in Buckets |-> <<>>]
    /\ broadcast_port = 0
    /\ closed = [hd \in 1 .. MaxHandles |-> 0]
    /\ fini_log = [p \in Ports |-> NoLog]
    /\ held = [p \in Ports |-> 0]
    /\ helper = [h \in Helpers |->
                   IF h = 1 THEN [NoHelper EXCEPT !.pc = "wait"]
                   ELSE NoHelper]
    /\ sub = [t \in Threads |-> NoSub]
    /\ cleaned = 0
    /\ pal = NoPal
    /\ efd = NoEfd
    /\ ipc_helper_lock = 0
    /\ sent = <<>>
    /\ rx = NoFrame
    /\ req = <<>>
    /\ recv = [t \in Threads |-> NoRecv]
    /\ bcast = <<>>
    /\ exit_ret = [t \in Threads |-> <<>>]
    /\ ops = 0

NextAlloc ==
    \/ \E t \in Users : StartedAlloc /\ Admit(t)
    \/ \E t \in Users, vmid \in Vmids, hdl \in Handles, type \in AddTypes :
          StartedAlloc /\ AddIpcPortByIdFail(t, vmid, hdl, type, "NULL")
    \/ \E t \in Users : StartedAlloc /\ Evict(t)
    \/ \E t \in Threads : RestartIpcHelper(t) /\ UNCHANGED ops
    \/ \E t \in Threads : FiniRest(t) /\ UNCHANGED ops
    \/ \E h \in Helpers : HelperRun(h) /\ UNCHANGED ops

SpecAlloc == InitAlloc /\ [][NextAlloc]_vars

(* The eventfd handle: opened, used and closed in every order *)

EfdCreates == {-1} \cup HostFds

EfdOffsets == {0, 1}

EfdLens == {4, 8}

EfdAnswers == {"8", "-PAL_ERROR_TRYAGAIN"}

NextEventfd ==
    \/ \E create \in EfdCreates, options \in EfdOptions, out \in EfdCreates :
          eventfd_pal_open(create, options, out)
    \/ \E offset \in EfdOffsets, len \in EfdLens, out \in EfdAnswers :
          eventfd_pal_read(offset, len, out)
    \/ \E offset \in EfdOffsets, len \in EfdLens, out \in EfdAnswers :
          eventfd_pal_write(offset, len, out)
    \/ \E out \in EfdAnswers : eventfd_pal_attrquerybyhdl(out)
    \/ eventfd_pal_close

SpecEventfd == Init /\ [][NextEventfd]_vars

(* Ports with fini callbacks that are evicted in every way *)

StartedFini == ops < MaxFiniOps /\ ops' = ops + 1

FiniTypes == { IPC_PORT_DIRPRT, IPC_PORT_IFPOLL,
               IPC_PORT_LISTEN \cup IPC_PORT_IFPOLL }

\* every admit passes the callback fini_cb
AdmitFini(t) ==
    \/ \E vmid \in Vmids, type \in FiniTypes :
          AdmitNew(t, vmid, type, "fini_cb")
    \/ \E p \in Ports, vmid \in Vmids, type \in FiniTypes :
          AddIpcPort(t, p, vmid, type, "fini_cb")

EvictFini(t) ==
    \/ \E p \in Ports : DelIpcPort(t, p, {})
    \/ \E vmid \in Vmids : DelIpcPortById(t, vmid, {})
    \/ DelAllIpcPorts(t, {})
    \/ \E p \in Ports : DelIpcPortFini(t, p)

NextFini ==
    \/ \E t \in Users : StartedFini /\ AdmitFini(t)
    \/ \E t \in Users : StartedFini /\ EvictFini(t)
    \/ \E t \in Users, p \in Ports : StartedFini /\ PutIpcPort(t, p)
    \/ \E t \in Threads : RestartIpcHelper(t) /\ UNCHANGED ops
    \/ \E t \in Threads : FiniRest(t) /\ UNCHANGED ops
    \/ \E h \in Helpers : HelperRun(h) /\ UNCHANGED ops
    \/ \E h \in Helpers, pobj \in Ports :
          HelperDisconnected(h, pobj) /\ UNCHANGED ops

SpecFini == InitAlive /\ [][NextFini]_vars

-----------------------------------------------------------------------------
(* Properties of the registry with the helper running (Spec) *)

\* occurrences of port p in the watched arrays of the helpers 1 .. h
RECURSIVE WatchCount(_, _)
WatchCount(h, p) ==
    IF h = 0 THEN 0
    ELSE Count(helper[h].local_pobjs, p) + WatchCount(h - 1, p)

\* the memberships of port p: the insertion list, the peer hash, the
\* watched arrays
Memberships(p) ==
    (IF list_empty(Reg, p) THEN 0 ELSE 1)
    + (IF hlist_unhashed(Reg, p) THEN 0 ELSE 1)
    + WatchCount(MaxHelpers, p)

\* the references callers hold on port p: those they were handed
\* (portptr, lookup) and those del_ipc_port_fini and receive_ipc_message
\* take for their own run
CallerHeld(p) ==
    held[p] + Cardinality({ t \in Threads : /\ sub[t].op = "fini_rest"
                                            /\ sub[t].p = p })
            + Cardinality({ t \in Threads : /\ recv[t].pc # "none"
                                            /\ recv[t].p = p })

\* C4: after any sequence of admits, evicts, lookups and helper
\* reconfigurations, the ref_count of every live port is the number of its
\* memberships (insertion list, peer hash, one per occurrence in the
\* watched array) plus the references held by callers, and a port that is
\* in the list or in the hash is live with a ref_count above zero.
C4_RefCountIsMemberships ==
    \A p \in Ports :
        /\ port[p].alloc =>
              port[p].ref_count = Memberships(p) + CallerHeld(p)
        /\ (~list_empty(Reg, p) \/ ~hlist_unhashed(Reg, p)) =>
              port[p].alloc /\ port[p].ref_count > 0

\* a port that is in the list, in the hash and in the watched array, with
\* a reference held by its caller, while another port has been released
C4_Witness ==
    \E p \in Ports :
        /\ port[p].alloc
        /\ ~list_empty(Reg, p)
        /\ ~hlist_unhashed(Reg, p)
        /\ WatchCount(MaxHelpers, p) = 1
        /\ held[p] = 1
        /\ port[p].ref_count = 4
        /\ \E hd \in Handles : closed[hd] = 1

\* the helper is blocked in its multi-wait and nothing is left that would
\* wake it: no event, no update request, no call in progress
Quiescent(h) ==
    /\ helper[h].pc = "wait"
    /\ ~ipc_helper_event
    /\ ~ipc_helper_update
    /\ \A t \in Threads : sub[t].op = "none"

\* the ports of the registry whose role mask has IFPOLL
IfpollPorts ==
    { p \in Range(pobj_list) : port[p].type \cap IPC_PORT_IFPOLL # {} }

\* C2: while the helper is alive, once the wakeup that follows the last
\* registry change has been served, the helper's watched array holds
\* exactly the ports of the registry whose role mask has IFPOLL.
C2_WatchedIsIfpoll ==
    \A h \in Helpers :
        (IN_HELPER(h) /\ Quiescent(h)) =>
            Range(helper[h].local_pobjs) = IfpollPorts

-----------------------------------------------------------------------------
(* Properties of the life cycle (SpecLife) *)

\* C1: under every interleaving of create_ipc_helper, restart_ipc_helper,
\* exit_with_ipc_helper, terminate_ipc_helper and the start and exit of
\* helper threads, at most one thread at a time is executing the helper
\* loop.
C1_SingleHelper ==
    Cardinality({ h \in Helpers : InLoop(h) }) <= 1

\* the ports of the registry that keep the helper alive
KeepalivePorts ==
    { p \in Range(pobj_list) : port[p].type \cap IPC_PORT_KEEPALIVE # {} }

\* C10: after exit_with_ipc_helper(true) with a KEEPALIVE port in the
\* registry the state is HANDEDOVER and the helper keeps running; once no
\* keepalive port is left and the helper has served its wakeups, the helper
\* is on its way out of the loop (it counts no keepalive port any more),
\* and shim_clean is never invoked twice.
C10_HandoverEnds ==
    /\ cleaned <= 1
    /\ \A h \in Helpers :
          (/\ ipc_helper_state = "HANDEDOVER"
           /\ IN_HELPER(h)
           /\ Quiescent(h)
           /\ KeepalivePorts = {}) => helper[h].nalive = 0

-----------------------------------------------------------------------------
(* Properties of the message traffic (SpecMsg) *)

\* request s is on the pending list of its port
Pending(s) == s \in Range(port[req[s].p].msgs)

\* C3: when del_ipc_port_fini ends on a port that has requests on its
\* pending list, each of them is off the list, its result is -ECONNRESET
\* and its thread has been woken.
C3_TeardownResets ==
    [][\A t \in Threads :
          (sub[t].op = "fini_rest" /\ sub'[t].op # "fini_rest") =>
              \A s \in Range(port[sub[t].p].msgs) :
                  /\ s \notin Range(port'[sub[t].p].msgs)
                  /\ req'[s].retval = -ECONNRESET
                  /\ req'[s].woken = req[s].woken + 1]_vars

\* del_ipc_port_fini has run to its end on port p: the port is in neither
\* collection and no teardown of it is in progress
TornDown(p) ==
    /\ list_empty(Reg, p)
    /\ hlist_unhashed(Reg, p)
    /\ \A t \in Threads : ~(sub[t].op = "fini_rest" /\ sub[t].p = p)

\* C5: a request attached to a port is completed by the matching IPC_RESP
\* or by the teardown of the port, and by one of them only: it is never
\* completed twice, and it is not left pending once the port has been
\* torn down.
C5_CompletedExactlyOnce ==
    \A s \in DOMAIN req :
        /\ req[s].woken <= 1
        /\ Pending(s) => ~TornDown(req[s].p)

\* C6: when ipc_resp_callback is given an IPC_RESP with a non-zero seq on
\* a port whose pending list holds the request with that seq, the request
\* leaves the list, its result is the retval of the response, its thread
\* is woken and the callback returns 0.
C6_RespCompletes ==
    [][rx'.n = rx.n + 1 =>
          LET e == rx'.last
          IN  (/\ e.code = "RESP"
               /\ e.out = "callback"
               /\ e.seq # 0
               /\ e.seq \in Range(port[e.p].msgs)) =>
                  /\ e.seq \notin Range(port'[e.p].msgs)
                  /\ req'[e.seq].retval = e.retval
                  /\ req'[e.seq].woken = req[e.seq].woken + 1
                  /\ e.ret = 0]_vars

\* a response with retval -2 has completed the request it answers
C6_Witness ==
    /\ rx.last.out = "callback"
    /\ rx.last.code = "RESP"
    /\ rx.last.seq \in DOMAIN req
    /\ rx.last.retval = -2
    /\ rx.last.ret = 0
    /\ req[rx.last.seq].retval = -2
    /\ req[rx.last.seq].woken = 1
    /\ ~Pending(rx.last.seq)

\* C7: no frame whose src is the id of this process is passed to a
\* callback, and no IPC_RESP is sent for it.
C7_EchoNotDispatched ==
    /\ (rx.last.out # "none" /\ rx.last.src = cur_process_vmid) =>
          rx.last.out # "callback"
    /\ \A i \in DOMAIN sent :
          sent[i].code = "RESP" => sent[i].dst # cur_process_vmid

\* after a frame of a peer has been dispatched and answered, an echo with
\* a seq has been read and dropped
C7_Witness ==
    /\ rx.n = 2
    /\ rx.last.out = "skipped"
    /\ rx.last.src = cur_process_vmid
    /\ rx.last.seq # 0
    /\ sent # <<>>

-----------------------------------------------------------------------------
(* Properties of broadcast_ipc (SpecBcast) *)

\* C8: whatever the registry, the target_type and the exclude list,
\* broadcast_ipc sends on no port of the exclude list, on the fan-out path
\* and on the path of the dedicated broadcast port.
C8_ExcludedNotSent ==
    \A i \in DOMAIN sent :
        sent[i].call # 0 => sent[i].p \notin bcast[sent[i].call].exclude

\* a broadcast has been sent to a port while another port that has the
\* target role was in the exclude list, and a broadcast for the dedicated
\* port has been held back by the exclude list
C8_Witness ==
    /\ \E i \in DOMAIN sent :
          /\ sent[i].call # 0
          /\ \E p \in bcast[sent[i].call].exclude :
                /\ p \in Range(pobj_list)
                /\ port[p].type \cap bcast[sent[i].call].target_type # {}
    /\ \E n \in DOMAIN bcast :
          /\ bcast[n].target_type = {}
          /\ broadcast_port # 0
          /\ broadcast_port \in bcast[n].exclude
          /\ \A i \in DOMAIN sent : sent[i].call # n

\* C9: with a non-zero target_type broadcast_ipc sends one copy to every
\* port of the insertion list whose role mask meets target_type and that
\* is not excluded, and to no other, with msg.dst the peer id of the port;
\* a send that fails does not stop the others, and the call returns 0.
C9_FanOutToAll ==
    [][(/\ Len(bcast') = Len(bcast) + 1
        /\ bcast'[Len(bcast')].target_type # {}) =>
          LET b    == bcast'[Len(bcast')]
              new  == SubSeq(sent', Len(sent) + 1, Len(sent'))
              rcpt == { p \in Range(pobj_list) :
                          /\ port[p].type \cap b.target_type # {}
                          /\ p \notin b.exclude }
          IN  /\ \A p \in rcpt :
                    Cardinality({ i \in DOMAIN new : new[i].p = p }) = 1
              /\ \A i \in DOMAIN new :
                    /\ new[i].p \in rcpt
                    /\ new[i].dst = port[new[i].p].vmid
              /\ b.ret = 0]_vars

\* the send to the first recipient has failed and the second recipient
\* has got its copy
C9_Witness ==
    \E i, j \in DOMAIN sent :
        /\ i < j
        /\ sent[i].call # 0
        /\ sent[i].call = sent[j].call
        /\ bcast[sent[i].call].target_type # {}
        /\ ~sent[i].ok
        /\ sent[j].ok
        /\ sent[i].dst # sent[j].dst

-----------------------------------------------------------------------------
(* Properties of the life cycle of the helper (SpecLife) *)

StateEdges ==
    { <<"UNINITIALIZED", "DELAYED">>, <<"UNINITIALIZED", "NOTALIVE">>,
      <<"DELAYED", "NOTALIVE">>, <<"NOTALIVE", "ALIVE">>,
      <<"ALIVE", "NOTALIVE">>, <<"ALIVE", "HANDEDOVER">>,
      <<"HANDEDOVER", "NOTALIVE">> }

\* C11: ipc_helper_state changes along the edges of the state machine
\* only (so never from HANDEDOVER to ALIVE), and a helper that is exiting
\* does not overwrite the ALIVE that was set for a newer helper.
C11_StateEdges ==
    [][ipc_helper_state' # ipc_helper_state =>
          /\ <<ipc_helper_state, ipc_helper_state'>> \in StateEdges
          /\ \A h \in Helpers :
                (helper[h].pc = "end" /\ helper'[h].pc = "end_clear") =>
                    ~(ipc_helper_state = "ALIVE" /\ ipc_helper_thread # h)
       ]_vars

\* thread t executes restart_ipc_helper(sub[t].flag) in this step
RestartStep(t) == sub[t].op = "restart" /\ sub'[t].op # "restart"

\* C12: restart_ipc_helper(need_create) in NOTALIVE enters
\* create_ipc_helper (which takes a thread object, when there is one) if
\* and only if need_create; in ALIVE it only sets ipc_helper_update when
\* the caller is the helper and otherwise only sets ipc_helper_event; in
\* HANDEDOVER it sets ipc_helper_update; in DELAYED it changes nothing; it
\* never changes the registry collections.
C12_RestartPerState ==
    [][\A t \in Threads : RestartStep(t) =>
          /\ <<port, pobj_list, ipc_port_pool>>' =
                <<port, pobj_list, ipc_port_pool>>
          /\ ipc_helper_state = "NOTALIVE" =>
                /\ (sub'[t].op = "create_lock") <=>
                       (sub[t].flag /\ NewThread # 0)
                /\ sub'[t].op = "create_lock" =>
                       helper'[sub'[t].new].pc = "new"
                /\ ~sub[t].flag => helper' = helper
                /\ UNCHANGED <<ipc_helper_state, ipc_helper_update,
                               ipc_helper_event>>
          /\ ipc_helper_state = "ALIVE" =>
                /\ IF IN_HELPER(t)
                   THEN ipc_helper_update' /\ UNCHANGED ipc_helper_event
                   ELSE ipc_helper_event' /\ UNCHANGED ipc_helper_update
                /\ UNCHANGED <<ipc_helper_state, helper>>
          /\ ipc_helper_state = "HANDEDOVER" =>
                /\ ipc_helper_update'
                /\ UNCHANGED <<ipc_helper_state, ipc_helper_event, helper>>
          /\ ipc_helper_state = "DELAYED" =>
                UNCHANGED <<ipc_helper_state, ipc_helper_thread,
                            ipc_helper_update, ipc_helper_event, helper>>
       ]_vars

\* the helper itself has asked for a restart while ALIVE: it has torn
\* down the port it polled, the dirty flag is set and the event is not
C12_Witness ==
    /\ ipc_helper_state = "ALIVE"
    /\ ipc_helper_update
    /\ ~ipc_helper_event
    /\ \E h \in Helpers : /\ IN_HELPER(h)
                          /\ helper[h].pc = "update_list"
                          /\ sub[h].op = "none"

\* init_ipc_helper is executed in this step
InitStep ==
    /\ ipc_helper_state \in {"UNINITIALIZED", "DELAYED"}
    /\ ipc_helper_state' = "NOTALIVE"

\* C13: restart_ipc_helper in UNINITIALIZED moves the state to DELAYED
\* and creates no thread; init_ipc_helper sets NOTALIVE and goes on to
\* create the helper if and only if the state was DELAYED, and otherwise
\* there is no helper thread.
C13_DeferredCreate ==
    [][/\ \A t \in Threads :
             (RestartStep(t) /\ ipc_helper_state = "UNINITIALIZED") =>
                /\ ipc_helper_state' = "DELAYED"
                /\ sub'[t] = NoSub
                /\ UNCHANGED <<helper, ipc_helper_thread>>
       /\ InitStep =>
             /\ (ipc_helper_state = "DELAYED") <=>
                   \E t \in Threads :
                      /\ sub[t].op = "none"
                      /\ sub'[t].op = "create_lock"
                      /\ helper'[sub'[t].new].pc = "new"
             /\ ipc_helper_state # "DELAYED" =>
                   /\ ipc_helper_thread' = 0
                   /\ \A h \in Helpers : helper'[h].pc = "none"
                   /\ sub' = sub
      ]_vars

\* a port has been admitted before init_ipc_helper: the restart it asked
\* for is deferred and no thread has been created
C13_Witness ==
    /\ ipc_helper_state = "DELAYED"
    /\ pobj_list # <<>>
    /\ ipc_helper_thread = 0
    /\ \A h \in Helpers : helper[h].pc = "none"
    /\ \A t \in Threads : sub[t] = NoSub

\* C14: exit_with_ipc_helper(handover) called by a thread that is not the
\* helper, in state ALIVE, stores HANDEDOVER and returns -EAGAIN if and
\* only if handover is true and a port of the insertion list has
\* KEEPALIVE, and otherwise stores NOTALIVE and returns 0; either way it
\* sets the event.  Called by the helper, or in another state, it returns
\* 0 and changes nothing.
C14_ExitWithHelper ==
    [][\A t \in Threads :
          \* the call goes past the test of line 1040
          /\ (sub[t].op = "none" /\ sub'[t].op = "exit_scan") =>
                ~IN_HELPER(t) /\ ipc_helper_state = "ALIVE"
          \* the call returns at line 1041
          /\ (sub[t].op = "none" /\ sub'[t].op = "none"
                /\ exit_ret'[t] # exit_ret[t]) =>
                /\ IN_HELPER(t) \/ ipc_helper_state # "ALIVE"
                /\ exit_ret'[t] = <<0>>
                /\ UNCHANGED <<ipc_helper_state, ipc_helper_thread,
                               ipc_helper_update, ipc_helper_event, port,
                               pobj_list, ipc_port_pool, fini_log, helper>>
          /\ (sub[t].op = "exit_scan" /\ sub'[t].op = "exit_xchg") =>
                sub'[t].flag <=>
                   /\ sub[t].flag
                   /\ \E p \in Range(pobj_list) :
                         "KEEPALIVE" \in port[p].type
          /\ (sub[t].op = "exit_xchg" /\ sub'[t].op = "none") =>
                /\ ipc_helper_event'
                /\ IF sub[t].flag
                   THEN /\ ipc_helper_state' = "HANDEDOVER"
                        /\ exit_ret'[t] = <<-EAGAIN>>
                   ELSE /\ ipc_helper_state' = "NOTALIVE"
                        /\ exit_ret'[t] = <<0>>
       ]_vars

\* a handover has been accepted: a keepalive port is in the list, the
\* state is HANDEDOVER, the event is set and the caller has got -EAGAIN
C14_Witness ==
    /\ ipc_helper_state = "HANDEDOVER"
    /\ ipc_helper_event
    /\ \E p \in Range(pobj_list) : "KEEPALIVE" \in port[p].type
    /\ \E t \in Users : exit_ret[t] = <<-EAGAIN>> /\ sub[t].op = "none"

\* C15: no request for a reconfiguration is lost: the helper is never
\* blocked in the multi-wait while the dirty flag ipc_helper_update is set
\* and the event that would wake it is not (a request made through the
\* event wakes the helper, which then goes to update_list; a request made
\* through the flag has to be seen before the helper waits again).
C15_NoLostRestart ==
    \A h \in Helpers :
        (IN_HELPER(h) /\ helper[h].pc = "wait" /\ ipc_helper_update) =>
            ipc_helper_event

\* C16: a helper that has terminated has put the reference of every port
\* of its watched array: none is left in local_pobjs with its reference
\* still counted, whichever way the helper left its loop.
C16_ReleasedAtExit ==
    \A h \in Helpers :
        helper[h].pc = "done" => helper[h].local_pobjs = <<>>

-----------------------------------------------------------------------------
(* Properties of the ports (Spec) *)

\* C17: a stream handle is closed once only, when the last reference of
\* its port is put, and never while a port that wraps it has references,
\* whatever is admitted, evicted and released, also when a handle is
\* passed to add_ipc_port_by_id again after its port was evicted.
C17_ClosedOnce ==
    /\ \A hd \in Handles : closed[hd] <= 1
    /\ \A p \in Ports :
          port[p].ref_count > 0 => closed[port[p].pal_handle] = 0

\* C18: every fini callback stored on a port is called once by the time
\* the port is destroyed, whichever operation evicted the port, and is
\* never called more than once.
C18_FiniCalledOnce ==
    \A p \in Ports :
        /\ fini_log[p].called <= fini_log[p].set
        /\ ~port[p].alloc => fini_log[p].called = fini_log[p].set

\* C19: add_ipc_port_by_id allocates a port only when no port with the
\* same peer id and handle is in the peer's bucket and no port with the
\* same handle is in the insertion list (otherwise it takes that port),
\* so that, ports being admitted by add_ipc_port_by_id only, no two ports
\* of the insertion list wrap the same handle.
C19_ReuseByHandle ==
    [][/\ \A p \in Ports : (~port[p].alloc /\ port'[p].alloc) =>
             \A q \in Ports :
                (port[q].alloc /\ port[q].pal_handle = port'[p].pal_handle)
                   => /\ list_empty(Reg, q)
                      /\ ~(/\ port'[p].vmid # 0
                           /\ port[q].vmid = port'[p].vmid
                           /\ q \in Range(ipc_port_pool[
                                          PID_HASH(port'[p].vmid)]))
       /\ \A i, j \in 1 .. Len(pobj_list') :
             i # j => port'[pobj_list'[i]].pal_handle
                        # port'[pobj_list'[j]].pal_handle
      ]_vars

\* a handle has been passed twice to add_ipc_port_by_id, with two roles
\* and without portptr: one port has both roles and no other port exists
C19_Witness ==
    /\ ops = 2
    /\ \E q \in Ports :
          /\ q \in Range(pobj_list)
          /\ held[q] = 0
          /\ IPC_PORT_DIRPRT \cup IPC_PORT_LISTEN \subseteq port[q].type
          /\ \A p \in Ports \ {q} : ~port[p].alloc

\* the step asserts IFPOLL on port p, which did not have it
NewlyIfpoll(p) ==
    /\ port'[p].alloc
    /\ "IFPOLL" \notin port[p].type
    /\ "IFPOLL" \in port'[p].type

\* the step is one that asks for a restart of the helper
AsksRestart == \E t \in Threads : sub[t].op = "none" /\ sub'[t].op = "restart"

\* C20: an admit that newly asserts IFPOLL on a port leaves the port at
\* the head of the insertion list with recent set and asks for a restart
\* of the helper; any other admit of a port that was not in the list
\* appends it at the tail with recent clear and asks for no restart, also
\* when the port had been evicted before.
C20_AdmitOrder ==
    [][\A p \in Ports :
          /\ NewlyIfpoll(p) =>
                /\ pobj_list' # <<>>
                /\ Head(pobj_list') = p
                /\ port'[p].recent
                /\ AsksRestart
          /\ (/\ ~NewlyIfpoll(p)
              /\ list_empty(Reg, p)
              /\ p \in Range(pobj_list')) =>
                /\ pobj_list' = Append(pobj_list, p)
                /\ ~port'[p].recent
                /\ ~AsksRestart
       ]_vars

-----------------------------------------------------------------------------
(* Properties of the fini callbacks (SpecFini, where every admit passes    *)
(* the callback fini_cb)                                                   *)

\* C21: after an admit that passes a fini callback, whatever the role
\* mask, the callback is in the port's fini array exactly once: a port
\* that is in the insertion list (it was admitted, and not torn down
\* since) has fini_cb in one slot and in one only.
C21_FiniInstalledOnce ==
    \A p \in Range(pobj_list) :
        Cardinality({ i \in 1 .. MAX_IPC_PORT_FINI_CB :
                         port[p].fini[i] = "fini_cb" }) = 1

-----------------------------------------------------------------------------
(* Properties of __del_ipc_port and __lookup_ipc_port on the registries    *)
(* that are reached (Spec)                                                 *)

\* the role masks an evict is tried with
EvictMasks == DelTypes \cup { IPC_PORT_DIRPRT, IPC_PORT_LISTEN,
                              IPC_PORT_LISTEN \cup IPC_PORT_IFPOLL }

C23_EvictAsksRestart ==
    \A p \in Ports, mask \in EvictMasks :
        port[p].alloc =>
           LET cur     == port[p].type
               cleared == IF mask = {} THEN cur ELSE mask \cap cur
           IN  del_ipc_port_(Reg, p, mask).need_restart
                  <=> \/ "KEEPALIVE" \in cleared
                      \/ "IFPOLL" \in cleared

\* the ports that are in the peer index
Indexed == UNION { Range(ipc_port_pool[b]) : b \in Buckets }

\* C24: every port in the peer index is in the bucket PID_HASH of its own
\* peer id, so a lookup by peer id and role mask finds a port whenever an
\* indexed port with that peer id and an intersecting role mask (any
\* role when the mask is 0) exists, and the port it returns is such a port.
C24_IndexedByPeer ==
    /\ \A b \in Buckets :
          \A p \in Range(ipc_port_pool[b]) : b = PID_HASH(port[p].vmid)
    /\ \A vmid \in Vmids, type \in {{}} \cup AddTypes :
          LET Match(q) == /\ port[q].vmid = vmid
                          /\ (type = {} \/ port[q].type \cap type # {})
              found    == lookup_ipc_port_(Reg, vmid, type)
          IN  IF \E q \in Indexed : Match(q)
              THEN found \in Indexed /\ Match(found)
              ELSE found = 0

-----------------------------------------------------------------------------
(* Properties of receive_ipc_message (SpecMsg)                             *)

C26_OnlyHelperResponds ==
    [][ (rx'.n # rx.n /\ rx'.last.t \in Users) => sent' = sent ]_vars

\* C27: when receive_ipc_message reads nothing and the stream has an
\* error, the port is torn down by del_ipc_port_fini with the exit code
\* ECONNRESET, no frame is dispatched and the loop is left for the
\* put_ipc_port that balances the reference taken at entry.
C27_EofTearsDown ==
    [][ \A t \in Threads :
          (recv[t].pc = "read" /\ sub[t].op = "none"
              /\ sub'[t].op = "fini_rest")
          => /\ sub'[t].p = recv[t].p
             /\ sub'[t].code = -ECONNRESET
             /\ rx' = rx /\ sent' = sent
             /\ recv'[t].pc = "end" ]_vars

\* what receive_ipc_message does with a frame when the caller gave an
\* output slot: a frame with the sequence waited for (any frame when it
\* is 0) is returned with success and ends the call; another frame gets
\* the outcome other and the call goes on reading
SlotCall(other(_)) ==
    rx'.n # rx.n =>
       LET l == rx'.last
           t == l.t
       IN  recv[t].msgptr =>
              IF recv[t].seq = 0 \/ l.seq = recv[t].seq
              THEN /\ l.out = "returned" /\ l.ret = 0
                   /\ recv'[t] = NoRecv
                   /\ sent' = sent /\ req' = req
              ELSE /\ l.out = other(l)
                   /\ recv'[t].pc = "read"

\* C28 as stated: a call with a match sequence and an output slot returns
\* success with the first frame that has the sequence (any frame when it
\* is 0), and every earlier frame, with another sequence, is dispatched
\* to its callback, once and in the order of arrival, before that.
C28_AllEarlierDispatched ==
    [][ SlotCall(LAMBDA l : "callback") ]_vars

\* C28, amended: as above, but an earlier frame that comes from this
\* process itself is passed over without a callback; the others are
\* dispatched.
C28_MatchReturned ==
    [][ SlotCall(LAMBDA l : IF l.src = cur_process_vmid
                            THEN "skipped" ELSE "callback") ]_vars

\* an application thread asked for sequence 1 with an output slot; a
\* frame was handled before, and the frame with sequence 1 was returned
C28_Witness ==
    /\ rx.n = 2 /\ ops = 1
    /\ rx.last.t \in Users
    /\ rx.last.out = "returned" /\ rx.last.seq = 1
    /\ recv[rx.last.t] = NoRecv

-----------------------------------------------------------------------------
(* Properties of the helper's accept (SpecAccept)                          *)

\* the ports the helper watches that have the role SERVER in the helper's
\* copy of the port's info
Servers(h) ==
    { q \in Range(helper[h].local_pobjs) : "SERVER" \in port[q].ptype }

-----------------------------------------------------------------------------
(* Properties of the platform's multi-wait (SpecWait)                      *)

C31_ClosedGuarded ==
    [][(efd.open /\ efd.fd = PAL_IDX_POISON /\ efd'.n # efd.n) =>
         /\ efd'.closes = 1
         /\ efd'.calls = efd.calls
         /\ efd'.op \in {"read", "write", "attrquery"} =>
               efd'.ret \in PalErrors]_vars

-----------------------------------------------------------------------------
(* Properties of the helper's reconfiguration *)

\* the watched ports of helper h that its private copy counts as keepalive
WatchedKeepalive(h) ==
    { i \in DOMAIN helper[h].local_pobjs :
        port[helper[h].local_pobjs[i]].ptype \cap IPC_PORT_KEEPALIVE # {} }

\* C32: after every reconfiguration of the helper nalive is the number of
\* watched ports whose private role mask has KEEPALIVE, and it is never
\* negative.
C32_NaliveCounts ==
    [][\A h \in Helpers :
         (helper[h].pc = "update_list" /\ helper'[h].pc # "update_list") =>
            /\ helper'[h].nalive >= 0
            /\ helper'[h].nalive = Cardinality(WatchedKeepalive(h))']_vars

\* C33: the ports of the insertion list that have recent set form a prefix
\* of the list: no port with recent set comes after one without.
C33_RecentPrefix ==
    \A i, j \in DOMAIN pobj_list :
        (i < j /\ port[pobj_list[j]].recent) => port[pobj_list[i]].recent

C35_RecentIsIfpoll ==
    [][\A h \in Helpers :
         (helper[h].pc = "update_list" /\ helper'[h].pc # "update_list") =>
            \A p \in Range(pobj_list) :
               (port[p].recent /\ ~port'[p].recent) =>
                  port'[p].ptype \cap IPC_PORT_IFPOLL # {}]_vars

\* C36: a port appears at most once in the watched array of a helper.
C36_WatchedOnce ==
    \A h \in Helpers :
        \A i, j \in DOMAIN helper[h].local_pobjs :
            helper[h].local_pobjs[i] = helper[h].local_pobjs[j] => i = j

\* C37: no operation of the registry stores to a port that has been freed,
\* and del_ipc_port_fini finds a reference on its port when it is entered
\* and again after its own put_ipc_port.
C37_NoTouchAfterFree ==
    [][/\ \A p \in Ports : fini_log'[p].stale = fini_log[p].stale
       /\ \A t \in Threads :
             /\ (sub[t].op # "fini_rest" /\ sub'[t].op = "fini_rest") =>
                   /\ port[sub'[t].p].alloc
                   /\ port[sub'[t].p].ref_count > 0
             /\ (sub[t].op = "fini_rest" /\ sub'[t].op # "fini_rest") =>
                   /\ port'[sub[t].p].alloc
                   /\ port'[sub[t].p].ref_count > 0]_vars

\* C38: every operation of the registry releases ipc_helper_lock on every
\* way out: the lock is held only by a thread that is inside a call.
C38_LockReleased ==
    ipc_helper_lock # 0 => ~Idle(ipc_helper_lock)

\* C39: receive_ipc_message leaves the reference count of its port as it
\* found it: on every way out, the step that returns gives back the
\* reference the call took when it was entered.
C39_RecvBalanced ==
    [][\A t \in Threads :
         (recv[t].pc # "none" /\ recv'[t].pc = "none") =>
            port'[recv[t].p].ref_count = port[recv[t].p].ref_count - 1]_vars

\* C40: a frame with the code IPC_RESP that is received never makes the
\* process send an IPC_RESP, whether a pending request matches it or not.
C40_NoRespToResp ==
    [][(rx'.n = rx.n + 1 /\ rx'.last.code = "RESP") => sent' = sent]_vars

====
